---- MODULE Spec2Model ----
(***************************************************************************)
(* Model of src/src/backtesting/vector_backtest.py, run_vectorized_backtest *)
(* and its nested calculate_metrics.                                        *)
(* The sections after the claims about the backtest model the pair          *)
(* analysis (src/src/analysis/cointegration.py, src/src/pair_discovery.py), *)
(* the signal tool (src/src/tools/signal_tools.py) and the grid search;     *)
(* each has a specification of its own.                                     *)
(*                                                                          *)
(* Numbers.  A pandas float cell is a record [nan, v]: NaN, or the integer  *)
(* v.  Money (the Spread column and everything derived from it) is counted  *)
(* in cents, so cost_per_trade = 0.05 is 5.  Thresholds are counted in      *)
(* tenths, so entry_threshold = 2.5 is 25.  A z-score is never rounded: it  *)
(* is kept as the exact pair (num, ssd) of its window of n spreads,         *)
(*     z = (num / n) / sqrt(ssd / (n * (n - 1))),                           *)
(* and compared with a threshold by exact integer arithmetic.               *)
(***************************************************************************)
EXTENDS Integers, Sequences, FiniteSets

VARIABLES
    pc,               \* position in run_vectorized_backtest
    entry_threshold,  \* argument, in tenths
    exit_threshold,   \* argument, in tenths
    lookback_window,  \* argument (line 12)
    Spread,           \* df['Spread'], line 41
    Z_Score,          \* df['Z_Score'], line 47
    position,         \* loop variable, line 52
    signals,          \* list built by the loop, line 53
    df,               \* the columns of lines 73-87
    strat_metrics,    \* result of calculate_metrics, line 128
    tool,             \* the function of the analysis or of the tools called
    args,             \* its arguments
    ret,              \* what the call returned
    screening,        \* the locals of screen_all_pairs
    optimizer         \* the state of the grid search

vars == <<pc, entry_threshold, exit_threshold, lookback_window, Spread,
          Z_Score, position, signals, df, strat_metrics,
          tool, args, ret, screening, optimizer>>

\* the variables of run_vectorized_backtest
backtestVars == <<pc, entry_threshold, exit_threshold, lookback_window, Spread,
                  Z_Score, position, signals, df, strat_metrics>>

\* the variables of a single function call
callVars == <<tool, args, ret>>

----------------------------------------------------------------------------
(* Bounds of the model *)

\* number of rows (trading days) of the price panel
NumDays == 41

(* Program constants *)

\* window = 20, the rolling window of the z-score
window == 20
\* cost_per_trade = 0.05, in cents
cost_per_trade == 5
\* capital = 100000
capital == 100000
\* the 252 trading days of calculate_metrics
TradingDays == 252
\* rf_annual = 0.015, in thousandths
rf_annual == 15

----------------------------------------------------------------------------
(* pandas float cells *)

NaN == [nan |-> TRUE, v |-> 0]
F(x) == [nan |-> FALSE, v |-> x]

Abs(x) == IF x < 0 THEN -x ELSE x

\* a - b, a * b of two cells: NaN if either is NaN
FSub(a, b) == IF a.nan \/ b.nan THEN NaN ELSE F(a.v - b.v)
FMul(a, b) == IF a.nan \/ b.nan THEN NaN ELSE F(a.v * b.v)
FAbs(a) == IF a.nan THEN NaN ELSE F(Abs(a.v))

\* Series.shift(1): row t holds the value of row t-1, row 1 holds NaN
Shift(col) == [t \in 1..Len(col) |-> IF t = 1 THEN NaN ELSE col[t - 1]]

\* Series.diff(): row t minus row t-1, row 1 holds NaN
Diff(col) == [t \in 1..Len(col) |-> FSub(col[t], Shift(col)[t])]

\* an integer column seen as a float column
AsFloat(col) == [t \in 1..Len(col) |-> F(col[t])]

RECURSIVE SumOver(_, _, _)
\* the sum of f[k] for k in lo..hi
SumOver(f, lo, hi) == IF lo > hi THEN 0 ELSE f[hi] + SumOver(f, lo, hi - 1)

----------------------------------------------------------------------------
(* Rolling statistics and the z-score, lines 43-47 *)

\* Series.rolling(window=n): a row has a value only when n rows end at it
\* and none of them is NaN (min_periods = n)
WindowFull(col, t, n) ==
    /\ n >= 1
    /\ t >= n
    /\ \A k \in (t - n + 1)..t : ~col[k].nan

WindowSum(col, t, n) ==
    SumOver([k \in 1..Len(col) |-> col[k].v], t - n + 1, t)

WindowSumSq(col, t, n) ==
    SumOver([k \in 1..Len(col) |-> col[k].v * col[k].v], t - n + 1, t)

\* rolling(n).mean(): the exact mean sum / n
RollingMean(col, n) ==
    [t \in 1..Len(col) |->
        IF WindowFull(col, t, n)
        THEN [nan |-> FALSE, sum |-> WindowSum(col, t, n), n |-> n]
        ELSE [nan |-> TRUE, sum |-> 0, n |-> n]]

\* rolling(n).std(), ddof = 1: the exact value sqrt(ssd / (n * (n - 1)))
\* with ssd = n * sum(x^2) - sum(x)^2; a window of one row has no std
RollingStd(col, n) ==
    [t \in 1..Len(col) |->
        IF WindowFull(col, t, n) /\ n >= 2
        THEN [nan |-> FALSE,
              ssd |-> n * WindowSumSq(col, t, n)
                      - WindowSum(col, t, n) * WindowSum(col, t, n),
              n |-> n]
        ELSE [nan |-> TRUE, ssd |-> 0, n |-> n]]

ZNaN == [nan |-> TRUE, num |-> 0, ssd |-> 0, n |-> 0]

\* (Spread - Spread_Mean) / Spread_Std of one row; a zero std comes with a
\* zero numerator, and 0 / 0 is NaN
ZCell(x, mean, std) ==
    IF x.nan \/ mean.nan \/ std.nan \/ std.ssd = 0
    THEN ZNaN
    ELSE [nan |-> FALSE, num |-> mean.n * x.v - mean.sum,
          ssd |-> std.ssd, n |-> mean.n]

\* df['Z_Score'] computed with rolling window n
ZScoreColumn(col, n) ==
    [t \in 1..Len(col) |->
        ZCell(col[t], RollingMean(col, n)[t], RollingStd(col, n)[t])]

\* z > thr / 10
ZGreater(z, thr) ==
    IF thr >= 0
    THEN z.num > 0 /\ 100 * z.num * z.num * (z.n - 1) > thr * thr * z.n * z.ssd
    ELSE z.num >= 0 \/ 100 * z.num * z.num * (z.n - 1) < thr * thr * z.n * z.ssd

\* z < thr / 10
ZLess(z, thr) ==
    IF thr <= 0
    THEN z.num < 0 /\ 100 * z.num * z.num * (z.n - 1) > thr * thr * z.n * z.ssd
    ELSE z.num <= 0 \/ 100 * z.num * z.num * (z.n - 1) < thr * thr * z.n * z.ssd

\* abs(z) < thr / 10
AbsZLess(z, thr) ==
    thr > 0 /\ 100 * z.num * z.num * (z.n - 1) < thr * thr * z.n * z.ssd

\* abs(z) > thr / 10
AbsZGreater(z, thr) ==
    thr < 0 \/ 100 * z.num * z.num * (z.n - 1) > thr * thr * z.n * z.ssd

\* two z-scores, possibly of different windows, are the same number
ZSame(a, b) ==
    IF a.nan \/ b.nan
    THEN a.nan /\ b.nan
    ELSE /\ (a.num > 0) = (b.num > 0)
         /\ (a.num < 0) = (b.num < 0)
         /\ a.num * a.num * (a.n - 1) * b.n * b.ssd
            = b.num * b.num * (b.n - 1) * a.n * a.ssd

----------------------------------------------------------------------------
(* Inputs *)

\* entry_threshold and exit_threshold in tenths; 25 and 5 are the defaults
EntryThresholds == {-5, 0, 25}
ExitThresholds == {0, 5, 10}
\* lookback_window; 20 is the default
LookbackWindows == {3, 20}

\* The Spread column of a panel of NumDays rows: a flat (0, 0, ...) or an
\* oscillating (1, 0, 1, 0, ...) spread with at most one event (a jump up
\* to 2 for a day, a drop to -1 for a day, a missing value for a day, or a
\* shock to 2 that decays through 1 on the next day), or a panel whose
\* spread is NaN throughout (fewer rows than the rolling hedge ratio of
\* line 37 needs, or a ticker without prices)
Baselines == {"flat", "oscillating"}
Events == {"none", "up", "down", "missing", "shock"}

SpreadSeries(base, event, day) ==
    [t \in 1..NumDays |->
        IF t = day /\ event # "none"
        THEN CASE event \in {"up", "shock"} -> F(2)
               [] event = "down" -> F(-1)
               [] OTHER -> NaN
        ELSE IF t = day + 1 /\ event = "shock"
        THEN F(1)
        ELSE F(IF base = "oscillating" THEN t % 2 ELSE 0)]

SpreadPanels ==
    {SpreadSeries(b, e, d) : b \in Baselines, e \in Events, d \in 1..NumDays}
    \cup {[t \in 1..NumDays |-> NaN]}

----------------------------------------------------------------------------
(* The state machine of the loop, lines 60-69 *)

FLAT == 0
LONG_SPREAD == 1
SHORT_SPREAD == -1

\* the entry rules with the sides exchanged
NextPosition_SidesSwapped(pos, z, entry, exit) ==
    IF pos = 0
    THEN IF ZGreater(z, entry) THEN 1
         ELSE IF ZLess(z, -entry) THEN -1
         ELSE pos
    ELSE IF AbsZLess(z, exit) THEN 0
         ELSE pos

\* the entry rules applied in every state, not only when flat
NextPosition_EntryFromAnyState(pos, z, entry, exit) ==
    IF ZGreater(z, entry) THEN -1
    ELSE IF ZLess(z, -entry) THEN 1
    ELSE IF pos # 0 /\ AbsZLess(z, exit) THEN 0
    ELSE pos

\* lines 60-69
NextPosition(pos, z, entry, exit) ==
    IF pos = 0
    THEN IF ZGreater(z, entry) THEN -1
         ELSE IF ZLess(z, -entry) THEN 1
         ELSE pos
    ELSE IF AbsZLess(z, exit) THEN 0
         ELSE pos

\* lines 56-71, one iteration: the new value of `position` and the value
\* appended to `signals`
Iteration(pos, z, entry, exit) ==
    IF z.nan
    THEN [position |-> pos, signal |-> 0]
    ELSE [position |-> NextPosition(pos, z, entry, exit),
          signal |-> NextPosition(pos, z, entry, exit)]

----------------------------------------------------------------------------
(* The columns of lines 73-87 *)

\* the position applied on the day it is decided
PositionLagged_SameDay(Position) == AsFloat(Position)

\* line 76: df['Position'].shift(1)
PositionLagged(Position) == Shift(AsFloat(Position))

\* lines 79-80
StrategyPnL(Position, spread) ==
    [t \in 1..Len(Position) |->
        FMul(PositionLagged(Position)[t], Diff(spread)[t])]

\* the trades counted on the lagged position
TradesColumn_OnLagged(Position) ==
    [t \in 1..Len(Position) |-> FAbs(Diff(PositionLagged(Position))[t])]

\* line 84: df['Position'].diff().abs()
TradesColumn(Position) ==
    [t \in 1..Len(Position) |-> FAbs(Diff(AsFloat(Position))[t])]

\* lines 73-87
PnLColumns(sig, spread) ==
    LET Position == sig
        Strategy_PnL_Daily == StrategyPnL(Position, spread)
        Trades == TradesColumn(Position)
        Transaction_Costs ==
            [t \in 1..Len(sig) |-> FMul(Trades[t], F(cost_per_trade))]
        Net_PnL ==
            [t \in 1..Len(sig) |->
                FSub(Strategy_PnL_Daily[t], Transaction_Costs[t])]
    IN  [Position |-> Position,
         Position_Lagged |-> PositionLagged(Position),
         Spread_Change |-> Diff(spread),
         Strategy_PnL_Daily |-> Strategy_PnL_Daily, Trades |-> Trades,
         Transaction_Costs |-> Transaction_Costs, Net_PnL |-> Net_PnL]

----------------------------------------------------------------------------
(* calculate_metrics, lines 110-125.  Its argument is Net_PnL / capital; a *)
(* return is kept as the cents of Net_PnL, that is in units of             *)
(* 1 / (100 * capital), and the statistics are exact.                      *)

\* the rows of a column that hold a value (pandas skips NaN)
Defined(col) == {t \in 1..Len(col) : ~col[t].nan}

ValueSum(col) ==
    SumOver([t \in 1..Len(col) |-> IF col[t].nan THEN 0 ELSE col[t].v],
            1, Len(col))

ValueSumSq(col) ==
    SumOver([t \in 1..Len(col) |-> IF col[t].nan THEN 0 ELSE col[t].v * col[t].v],
            1, Len(col))

\* returns.mean() * 252: the exact value num / cnt, NaN without a return
AnnRet(returns) ==
    LET cnt == Cardinality(Defined(returns)) IN
    IF cnt = 0 THEN [nan |-> TRUE, num |-> 0, cnt |-> 0]
    ELSE [nan |-> FALSE, num |-> TradingDays * ValueSum(returns), cnt |-> cnt]

\* returns.std() * sqrt(252), ddof = 1: the exact value
\* sqrt(252 * ssd / (cnt * (cnt - 1))), NaN with fewer than two returns
AnnVol(returns) ==
    LET cnt == Cardinality(Defined(returns)) IN
    IF cnt < 2 THEN [nan |-> TRUE, ssd |-> 0, cnt |-> cnt]
    ELSE [nan |-> FALSE,
          ssd |-> cnt * ValueSumSq(returns)
                  - ValueSum(returns) * ValueSum(returns),
          cnt |-> cnt]

\* rf_annual in the unit of a return
RiskFree == (rf_annual * capital) \div 10

\* line 113: (ann_ret - rf_annual) / ann_vol if ann_vol != 0 else 0.
\* NaN != 0 is true in Python, so a NaN volatility takes the division.
\* A quotient is kept as its exact numerator (excess_num / cnt) and the
\* volatility it is divided by.
SharpeRatio(ann_ret, ann_vol) ==
    IF ann_vol.nan \/ ann_vol.ssd # 0
    THEN [zero |-> FALSE,
          nan |-> ann_ret.nan \/ ann_vol.nan,
          excess_num |-> ann_ret.num - RiskFree * ann_ret.cnt,
          cnt |-> ann_ret.cnt,
          vol_ssd |-> ann_vol.ssd]
    ELSE [zero |-> TRUE, nan |-> FALSE, excess_num |-> 0, cnt |-> 0,
          vol_ssd |-> 0]

calculate_metrics(returns) ==
    [computed |-> TRUE,
     ann_ret |-> AnnRet(returns),
     ann_vol |-> AnnVol(returns),
     sharpe |-> SharpeRatio(AnnRet(returns), AnnVol(returns))]

----------------------------------------------------------------------------
EmptyDf == [Position |-> <<>>, Position_Lagged |-> <<>>, Spread_Change |-> <<>>,
            Strategy_PnL_Daily |-> <<>>, Trades |-> <<>>,
            Transaction_Costs |-> <<>>, Net_PnL |-> <<>>]

NoMetrics == [computed |-> FALSE]

\* no function is being called, no screening and no grid search is running
NoCall == tool = "none" /\ args = <<>> /\ ret = [done |-> FALSE]

NoScreening == screening = [pc |-> "none"]

NoOptimizer == optimizer = [pc |-> "none"]

Init ==
    /\ pc = "zscore"
    /\ entry_threshold \in EntryThresholds
    /\ exit_threshold \in ExitThresholds
    /\ lookback_window \in LookbackWindows
    /\ Spread \in SpreadPanels
    /\ Z_Score = <<>>
    /\ position = 0
    /\ signals = <<>>
    /\ df = EmptyDf
    /\ strat_metrics = NoMetrics
    /\ NoCall /\ NoScreening /\ NoOptimizer

\* lines 43-52: the rolling statistics, the z-score column, position = 0
ComputeZScore ==
    /\ pc = "zscore"
    /\ Z_Score' = ZScoreColumn(Spread, window)
    /\ position' = 0
    /\ signals' = <<>>
    /\ pc' = "loop"
    /\ UNCHANGED <<entry_threshold, exit_threshold, lookback_window, Spread,
                   df, strat_metrics>>
    /\ UNCHANGED <<callVars, screening, optimizer>>

\* lines 55-71: one iteration of `for z in df['Z_Score']`
LoopStep ==
    /\ pc = "loop"
    /\ Len(signals) < Len(Z_Score)
    /\ LET z == Z_Score[Len(signals) + 1]
           it == Iteration(position, z, entry_threshold, exit_threshold)
       IN  /\ position' = it.position
           /\ signals' = Append(signals, it.signal)
    /\ UNCHANGED <<pc, entry_threshold, exit_threshold, lookback_window,
                   Spread, Z_Score, df, strat_metrics>>
    /\ UNCHANGED <<callVars, screening, optimizer>>

\* lines 73-87: the position, PnL and cost columns
ComputeReturns ==
    /\ pc = "loop"
    /\ Len(signals) = Len(Z_Score)
    /\ df' = PnLColumns(signals, Spread)
    /\ pc' = "metrics"
    /\ UNCHANGED <<entry_threshold, exit_threshold, lookback_window, Spread,
                   Z_Score, position, signals, strat_metrics>>
    /\ UNCHANGED <<callVars, screening, optimizer>>

\* lines 98, 128: strat_metrics = calculate_metrics(df['Strategy_Daily_Ret'], ...)
CalculateMetrics ==
    /\ pc = "metrics"
    /\ strat_metrics' = calculate_metrics(df.Net_PnL)
    /\ pc' = "done"
    /\ UNCHANGED <<entry_threshold, exit_threshold, lookback_window, Spread,
                   Z_Score, position, signals, df>>
    /\ UNCHANGED <<callVars, screening, optimizer>>

Next == ComputeZScore \/ LoopStep \/ ComputeReturns \/ CalculateMetrics

Spec == Init /\ [][Next]_vars
----------------------------------------------------------------------------
(* Claims about the position state machine *)

\* the days processed so far
Days == 1..Len(signals)

\* the transition the state machine of the specification takes on a defined
\* z-score, its rules read in the order they are listed
ClaimedTransition(pos, z) ==
    IF pos = FLAT
    THEN IF ZGreater(z, entry_threshold) THEN SHORT_SPREAD
         ELSE IF ZLess(z, -entry_threshold) THEN LONG_SPREAD
         ELSE FLAT
    ELSE IF AbsZLess(z, exit_threshold) THEN FLAT
         ELSE pos

\* C1: the loop variable `position` is FLAT before the first day, and every
\* day with a defined z-score moves it as the state machine says: from FLAT
\* to SHORT_SPREAD when z > entry_threshold, to LONG_SPREAD when
\* z < -entry_threshold, else it stays FLAT; from LONG_SPREAD or
\* SHORT_SPREAD to FLAT when |z| < exit_threshold, else it keeps its state.
C1_Transitions ==
    [][(pc = "loop" /\ Len(signals') = Len(signals) + 1) =>
        LET z == Z_Score[Len(signals')] IN
        /\ (signals = <<>> => position = FLAT)
        /\ (~z.nan => position' = ClaimedTransition(position, z))]_vars

\* a run that has entered SHORT_SPREAD, held it over a day with a defined
\* z-score and left it on a later day with a defined z-score
C1_Witness ==
    /\ pc = "loop"
    /\ \E t \in Days : \E u \in Days :
        /\ t + 1 < u
        /\ signals[t] = SHORT_SPREAD /\ signals[t + 1] = SHORT_SPREAD
        /\ signals[u - 1] = SHORT_SPREAD /\ signals[u] = FLAT
        /\ ~Z_Score[u].nan
        /\ position = FLAT

\* C2: the recorded position series holds only FLAT, LONG_SPREAD and
\* SHORT_SPREAD, and a day in LONG_SPREAD or SHORT_SPREAD follows a day in
\* the same state or in FLAT: no day flips LONG to SHORT or SHORT to LONG.
C2_NoDirectFlip ==
    /\ \A t \in Days :
        /\ signals[t] \in {FLAT, LONG_SPREAD, SHORT_SPREAD}
        /\ signals[t] # FLAT => (t > 1 /\ signals[t - 1] \in {FLAT, signals[t]})
    /\ pc \in {"metrics", "done"} => df.Position = signals

\* a recorded series that leaves LONG_SPREAD for FLAT on a NaN day and is
\* back in LONG_SPREAD on the next day with a defined z-score
C2_Witness ==
    /\ pc = "done"
    /\ \E t \in 3..Len(df.Position) :
        /\ df.Position[t] = LONG_SPREAD
        /\ df.Position[t - 1] = FLAT /\ Z_Score[t - 1].nan
        /\ \E u \in 1..(t - 2) : df.Position[u] = LONG_SPREAD

\* C3: on a day whose z-score is NaN the recorded position equals the
\* position recorded for the previous day (an open position stays recorded
\* as open), so the day produces no entry and no exit.
C3_NaNDayKeepsRecordedPosition ==
    \A t \in Days : (t > 1 /\ Z_Score[t].nan) => signals[t] = signals[t - 1]

----------------------------------------------------------------------------
(* Claims about the PnL and cost columns *)

Finished == pc \in {"metrics", "done"}

\* z-scores a day could have had instead: none, far above the entry
\* thresholds, far below them, and close to zero
OtherZScores ==
    {ZNaN,
     [nan |-> FALSE, num |-> 38, ssd |-> 76, n |-> window],
     [nan |-> FALSE, num |-> -38, ssd |-> 76, n |-> window],
     [nan |-> FALSE, num |-> -2, ssd |-> 76, n |-> window]}

\* C4: the gross PnL of day t is the position recorded on day t-1 times
\* (spread_t - spread_{t-1}), and the first day, without a previous one, has
\* none; so whatever z-score day t has, the gross PnL of day t is the same.
C4_PositionAppliedNextDay ==
    /\ [](Finished =>
            /\ df.Strategy_PnL_Daily[1].nan
            /\ \A t \in 2..Len(df.Position) :
                df.Strategy_PnL_Daily[t]
                = FMul(F(df.Position[t - 1]), FSub(Spread[t], Spread[t - 1])))
    /\ [][(pc = "loop" /\ Len(signals') = Len(signals) + 1) =>
            \A z \in OtherZScores :
                LET t == Len(signals')
                    other == Iteration(position, z, entry_threshold,
                                       exit_threshold).signal
                IN  StrategyPnL(Append(signals, other), Spread)[t]
                    = StrategyPnL(signals', Spread)[t]]_vars

\* a day on which the position is closed and that still earns the PnL of
\* the position held the day before
C4_Witness ==
    /\ pc = "done"
    /\ \E t \in 2..Len(df.Position) :
        /\ df.Position[t - 1] = SHORT_SPREAD
        /\ df.Position[t] = FLAT
        /\ df.Strategy_PnL_Daily[t] = F(1)

\* C5: the cost of a day is cost_per_trade times the absolute change of the
\* recorded position since the previous day: one unit for an entry or an
\* exit, two for a flip, nothing without a change; and the net PnL of the
\* day is its gross PnL minus that cost.
C5_CostPerPositionChange ==
    Finished =>
        \A t \in 2..Len(df.Position) :
            LET prev == df.Position[t - 1]
                cur == df.Position[t]
                cost == df.Transaction_Costs[t]
            IN  /\ cost = F(cost_per_trade * Abs(cur - prev))
                /\ (prev = FLAT) # (cur = FLAT) => cost = F(cost_per_trade)
                /\ prev = cur => cost = F(0)
                /\ (prev # FLAT /\ cur # FLAT /\ prev # cur)
                   => cost = F(2 * cost_per_trade)
                /\ df.Net_PnL[t] = FSub(df.Strategy_PnL_Daily[t], cost)

\* a run with an entry, a day without a change and an exit, each with a
\* defined net PnL
C5_Witness ==
    /\ pc = "done"
    /\ \E t \in 2..(Len(df.Position) - 2) :
        /\ df.Position[t - 1] = FLAT /\ df.Position[t] # FLAT
        /\ df.Position[t + 1] = df.Position[t]
        /\ df.Position[t + 2] = FLAT
        /\ df.Transaction_Costs[t] = F(cost_per_trade)
        /\ df.Transaction_Costs[t + 1] = F(0)
        /\ df.Transaction_Costs[t + 2] = F(cost_per_trade)
        /\ \A u \in t..(t + 2) : ~df.Net_PnL[u].nan

\* the days on which the recorded position leaves FLAT, and returns to it
Entries ==
    {t \in 2..Len(df.Position) :
        df.Position[t - 1] = FLAT /\ df.Position[t] # FLAT}
Exits ==
    {t \in 2..Len(df.Position) :
        df.Position[t - 1] # FLAT /\ df.Position[t] = FLAT}

\* the sum of lagged position times spread change over the days on which a
\* position is applied
HoldingPeriodGross ==
    SumOver([t \in 1..Len(df.Position) |->
                IF df.Position_Lagged[t].nan \/ df.Position_Lagged[t].v = FLAT
                   \/ df.Spread_Change[t].nan
                THEN 0
                ELSE df.Position_Lagged[t].v * df.Spread_Change[t].v],
            1, Len(df.Position))

\* every change of the recorded position is a transition of the state
\* machine: no open position is recorded as FLAT for a day without a
\* z-score
NoChangeOnNaNDay == \A t \in Exits : ~Z_Score[t].nan

\* C6: a backtest with a single round trip (one entry, one exit), run at
\* transaction cost 0, has a total net PnL equal to the sum over the holding
\* period of lagged position times spread change.  The run has no way to
\* take a cost of 0: line 83 sets cost_per_trade = 0.05 for every run.
C6_RoundTripNetIsHoldingGross ==
    (/\ pc = "done"
     /\ Cardinality(Entries) = 1 /\ Cardinality(Exits) = 1
     /\ NoChangeOnNaNDay)
        => ValueSum(df.Net_PnL) = HoldingPeriodGross

\* stop-loss thresholds a caller would configure, in tenths
StopLossThresholds == {30, 40}

\* C7: with a stop-loss threshold configured, a day with |z| above it
\* leaves the position FLAT, whatever the state and the other rules.
C7_StopLossForcesFlat ==
    \A sl \in StopLossThresholds :
        \A t \in Days :
            (~Z_Score[t].nan /\ AbsZGreater(Z_Score[t], sl))
                => signals[t] = FLAT

\* C8: the trade count of the run, the sum of its Trades column, is the
\* number of FLAT to non-FLAT transitions of the position series; stated
\* here for the runs whose position changes are all transitions of the
\* state machine.
C8_TradeCountIsEntries ==
    (pc = "done" /\ NoChangeOnNaNDay)
        => ValueSum(df.Trades) = Cardinality(Entries)

----------------------------------------------------------------------------
(* Claims about the z-score and the metrics *)

\* C9: the z-score column is (spread - rolling mean) / rolling std over the
\* lookback_window argument, so the first z-score is defined once
\* lookback_window spreads are available.
C9_ZScoreUsesLookbackWindow ==
    pc # "zscore" =>
        \A t \in 1..Len(Spread) :
            ZSame(Z_Score[t], ZScoreColumn(Spread, lookback_window)[t])

\* C10: the Sharpe ratio is (annualized return - risk-free rate) /
\* annualized volatility, is 0 when the volatility is 0 or NaN, and is
\* never NaN.
C10_SharpeDefined ==
    pc = "done" =>
        LET m == strat_metrics IN
        /\ ~m.sharpe.nan
        /\ IF m.ann_vol.nan \/ m.ann_vol.ssd = 0
           THEN m.sharpe.zero
           ELSE /\ ~m.sharpe.zero
                /\ m.sharpe.excess_num = m.ann_ret.num - RiskFree * m.ann_ret.cnt
                /\ m.sharpe.cnt = m.ann_ret.cnt
                /\ m.sharpe.vol_ssd = m.ann_vol.ssd
----------------------------------------------------------------------------
(***************************************************************************)
(* Pair analysis, src/src/analysis/cointegration.py and                    *)
(* src/src/pair_discovery.py, and the signal tool of                       *)
(* src/src/tools/signal_tools.py.                                          *)
(*                                                                         *)
(* Numbers.  A Python float is a record [k, v]: the finite number v, +inf, *)
(* -inf or NaN.  p-values are counted in thousandths (0.05 is 50), the     *)
(* Hurst exponent and the correlation in hundredths (0.7 is 70), the       *)
(* half-life in days, a score in points, and the z-score, the thresholds   *)
(* and the confidence of generate_trade_signal in hundredths (2.5 is 250). *)
(***************************************************************************)
Fin(v) == [k |-> "fin", v |-> v]

PosInf == [k |-> "inf", v |-> 0]

NegInf == [k |-> "ninf", v |-> 0]

NotANumber == [k |-> "nan", v |-> 0]

\* x < c and x > c for a float x and a finite c; a comparison with NaN is
\* False
Lt(x, c) == x.k = "ninf" \/ (x.k = "fin" /\ x.v < c)

Gt(x, c) == x.k = "inf" \/ (x.k = "fin" /\ x.v > c)

\* abs(x)
FloatAbs(x) ==
    IF x.k = "ninf" THEN PosInf
    ELSE IF x.k = "fin" THEN Fin(Abs(x.v))
    ELSE x

(* Results of analyze_pair: the fields that score_pair and is_qualified read *)

\* eg_pvalue, in thousandths
PValues == {Fin(v) : v \in {0, 9, 10, 49, 50, 99, 100, 149, 150, 1000}}
               \cup {NotANumber}

\* hurst, in hundredths
Hursts == {Fin(v) : v \in {39, 40, 49, 50, 59, 60, 69, 70}} \cup {NotANumber}

\* half_life, in days
HalfLives == {Fin(v) : v \in {5, 6, 29, 30, 59, 60, 119, 120, 149, 150, 500}}
                 \cup {PosInf, NotANumber}

\* correlation, in hundredths
Correlations == {Fin(v) : v \in {-100, 0, 60, 61, 70, 71, 80, 81, 100}}
                    \cup {NotANumber}

PairResults == [correlation : Correlations, eg_pvalue : PValues,
                half_life : HalfLives, hurst : Hursts]

(* score_pair, cointegration.py lines 190-221 *)

\* every tier that holds adds its points
score_pair_TiersAdded(result) ==
    (IF Lt(result.eg_pvalue, 10) THEN 50 ELSE 0)
    + (IF Lt(result.eg_pvalue, 50) THEN 30 ELSE 0)
    + (IF Lt(result.eg_pvalue, 100) THEN 20 ELSE 0)
    + (IF Lt(result.hurst, 40) /\ Lt(result.half_life, 30) THEN 30 ELSE 0)
    + (IF Lt(result.hurst, 50) /\ Lt(result.half_life, 60) THEN 20 ELSE 0)
    + (IF Lt(result.hurst, 60) /\ Lt(result.half_life, 120) THEN 10 ELSE 0)
    + (IF Gt(result.correlation, 80) THEN 20 ELSE 0)
    + (IF Gt(result.correlation, 70) THEN 15 ELSE 0)
    + (IF Gt(result.correlation, 60) THEN 10 ELSE 0)

\* lines 190-221
score_pair(result) ==
    LET cointegration ==
            IF Lt(result.eg_pvalue, 10) THEN 50
            ELSE IF Lt(result.eg_pvalue, 50) THEN 30
            ELSE IF Lt(result.eg_pvalue, 100) THEN 20
            ELSE 0
        mean_reversion ==
            IF Lt(result.hurst, 40) /\ Lt(result.half_life, 30) THEN 30
            ELSE IF Lt(result.hurst, 50) /\ Lt(result.half_life, 60) THEN 20
            ELSE IF Lt(result.hurst, 60) /\ Lt(result.half_life, 120) THEN 10
            ELSE 0
        correlation ==
            IF Gt(result.correlation, 80) THEN 20
            ELSE IF Gt(result.correlation, 70) THEN 15
            ELSE IF Gt(result.correlation, 60) THEN 10
            ELSE 0
    IN  0 + cointegration + mean_reversion + correlation

(* is_qualified of filter_qualified_pairs, pair_discovery.py lines 111-137 *)

\* the half-life bounds taken inclusive
is_qualified_HalfLifeInclusive(row) ==
    /\ Lt(row.eg_pvalue, 150)
    /\ Gt(row.correlation, 60)
    /\ Lt(row.half_life, 151)
    /\ Gt(row.half_life, 4)
    /\ Lt(row.hurst, 70)

\* lines 115-122
is_qualified(row) ==
    /\ Lt(row.eg_pvalue, 150)
    /\ Gt(row.correlation, 60)
    /\ Lt(row.half_life, 150)
    /\ Gt(row.half_life, 5)
    /\ Lt(row.hurst, 70)

(* generate_trade_signal, signal_tools.py lines 85-148 *)

\* round(confidence, 2): thousandths to the nearest hundredth
Round2(thousandths) == (thousandths + 5) \div 10

\* the close condition checked before the entry conditions
generate_trade_signal_CloseFirst(z_score, entry, exit) ==
    LET signal == IF Lt(FloatAbs(z_score), exit) THEN "CLOSE"
                  ELSE IF Gt(z_score, entry) THEN "OPEN_SHORT"
                  ELSE IF Lt(z_score, -entry) THEN "OPEN_LONG"
                  ELSE "HOLD"
    IN  [signal |-> signal,
         confidence |-> IF signal = "CLOSE" THEN 100
                        ELSE IF signal = "HOLD" THEN 0
                        ELSE 60]

\* lines 108-148; the confidence is computed in thousandths and returned in
\* hundredths
generate_trade_signal(z_score, entry, exit) ==
    LET signal == IF Gt(z_score, entry) THEN "OPEN_SHORT"
                  ELSE IF Lt(z_score, -entry) THEN "OPEN_LONG"
                  ELSE IF Lt(FloatAbs(z_score), exit) THEN "CLOSE"
                  ELSE "HOLD"
        \* max(0, abs(z_score) - entry_threshold); max(0, nan) is 0
        excess == IF FloatAbs(z_score).k = "inf" THEN PosInf
                  ELSE IF FloatAbs(z_score).k = "nan" THEN Fin(0)
                  ELSE IF FloatAbs(z_score).v - entry > 0
                       THEN Fin(FloatAbs(z_score).v - entry)
                  ELSE Fin(0)
        \* min(1.0, 0.6 + excess * 0.4)
        scaled == IF excess.k = "inf" THEN 1000
                  ELSE IF 600 + 4 * excess.v < 1000 THEN 600 + 4 * excess.v
                  ELSE 1000
        confidence == IF signal \in {"OPEN_LONG", "OPEN_SHORT"} THEN scaled
                      ELSE IF signal = "CLOSE" THEN 1000
                      ELSE 0
    IN  [signal |-> signal, confidence |-> Round2(confidence)]

\* z_score in hundredths
ZScores == {Fin(v) : v \in {-351, -300, -263, -251, -250, -249, -51, -50, -49,
                            -10, 0, 10, 49, 50, 51, 249, 250, 251, 263, 300,
                            351}}
               \cup {PosInf, NegInf, NotANumber}

\* entry_threshold, the "Z-score magnitude required to open a position", and
\* exit_threshold, in hundredths; 250 and 50 are the defaults
EntryMagnitudes == {0, 50, 250}

ExitMagnitudes == {0, 50, 300}

SignalArgs == [z_score : ZScores, entry_threshold : EntryMagnitudes,
               exit_threshold : ExitMagnitudes]

(* Series given to half_life and hurst_exponent *)

\* the longest series
MaxPoints == 28

\* a - b of two floats
FloatSub(a, b) ==
    IF a.k = "nan" \/ b.k = "nan" THEN NotANumber
    ELSE IF a.k = "fin" /\ b.k = "fin" THEN Fin(a.v - b.v)
    ELSE IF a.k = "fin" THEN (IF b.k = "inf" THEN NegInf ELSE PosInf)
    ELSE IF b.k = "fin" THEN a
    ELSE IF a.k = b.k THEN NotANumber
    ELSE a

\* A series of n points: constant, a linear trend, an oscillation of period
\* 2, a level that steps down once and stays, an aperiodic 0/1 pattern (1 on
\* the perfect squares), a pulse every twelve points, or +inf throughout;
\* possibly with one missing value or one infinite value
SeriesKinds == {"constant", "trend", "oscillating", "step", "aperiodic",
                "seasonal", "infinite"}

SeriesEvents == {"none", "missing", "overflow"}

SeriesOf(kind, n, event) ==
    [t \in 1..n |->
        IF t = 3 /\ event = "missing" THEN NotANumber
        ELSE IF t = 3 /\ event = "overflow" THEN PosInf
        ELSE IF kind = "constant" THEN Fin(7)
        ELSE IF kind = "trend" THEN Fin(t)
        ELSE IF kind = "oscillating" THEN Fin(t % 2)
        ELSE IF kind = "step" THEN (IF t = 1 THEN Fin(30) ELSE Fin(29))
        ELSE IF kind = "aperiodic"
             THEN (IF \E r \in 1..t : r * r = t THEN Fin(1) ELSE Fin(0))
        ELSE IF kind = "seasonal"
             THEN (IF t % 12 = 1 THEN Fin(1) ELSE Fin(0))
        ELSE PosInf]

SeriesInputs == {SeriesOf(kind, n, event) :
                    kind \in SeriesKinds, n \in 0..MaxPoints,
                    event \in SeriesEvents}

\* what numpy does with a regression on non-finite data: it raises
\* LinAlgError or it returns NaN coefficients
DegenerateFits == {"raises", "nan"}

(* half_life, cointegration.py lines 51-96 *)

\* Series.dropna()
DropNa(series) == SelectSeq(series, LAMBDA x : x.k # "nan")

\* lines 64-69: the rows t of spread_clean where both shift(1) and diff()
\* hold a value, as pairs (lag, diff)
IsAligned(clean, t) == FloatSub(clean[t], clean[t - 1]).k # "nan"

AlignedRows(clean) == {t \in 2..Len(clean) : IsAligned(clean, t)}

RECURSIVE SumProducts(_, _, _)
\* the sum over the rows t in T of lag_t * lag_t (squares) or lag_t * diff_t
SumProducts(clean, T, squares) ==
    IF T = {} THEN 0
    ELSE LET t == CHOOSE u \in T : TRUE
             x == clean[t - 1].v
             y == IF squares THEN x ELSE clean[t].v - clean[t - 1].v
         IN  x * y + SumProducts(clean, T \ {t}, squares)

\* a half-life -log(2) / beta with beta = sxy / sxx < 0, kept exact as
\* log(2) * num / den
HalfLifeValue(num, den) == [k |-> "fin", num |-> num, den |-> den]

HalfLifeInf == [k |-> "inf", num |-> 0, den |-> 0]

\* half_life_val > 500, with log(2) = 0.6931
ExceedsFiveHundred(h) == 6931 * h.num > 5000000 * h.den

\* without the sanity check of line 90
half_life_NoSanityCheck(spread, degenerate) ==
    LET spread_clean == DropNa(spread)
        rows == AlignedRows(spread_clean)
        finite == \A t \in rows : spread_clean[t].k = "fin"
                                    /\ spread_clean[t - 1].k = "fin"
        sxx == SumProducts(spread_clean, rows, TRUE)
        sxy == SumProducts(spread_clean, rows, FALSE)
    IN  IF Len(spread_clean) < 20 THEN HalfLifeInf
        ELSE IF Cardinality(rows) < 10 THEN HalfLifeInf
        ELSE IF ~finite THEN HalfLifeInf
        ELSE IF sxx = 0 \/ sxy >= 0 THEN HalfLifeInf
        ELSE HalfLifeValue(sxx, -sxy)

\* lines 51-96.  np.linalg.lstsq of y on the single regressor X returns
\* beta = sum(X * y) / sum(X * X), and 0 when X is all zero.
half_life(spread, degenerate) ==
    LET spread_clean == DropNa(spread)
        rows == AlignedRows(spread_clean)
        finite == \A t \in rows : spread_clean[t].k = "fin"
                                    /\ spread_clean[t - 1].k = "fin"
        sxx == SumProducts(spread_clean, rows, TRUE)
        sxy == SumProducts(spread_clean, rows, FALSE)
        half_life_val == HalfLifeValue(sxx, -sxy)
    IN  IF Len(spread_clean) < 20 THEN HalfLifeInf
        ELSE IF Cardinality(rows) < 10 THEN HalfLifeInf
        \* lstsq raises: except Exception
        ELSE IF ~finite /\ degenerate = "raises" THEN HalfLifeInf
        \* beta is NaN: beta >= 0 is False, half_life_val is NaN, not finite
        ELSE IF ~finite THEN HalfLifeInf
        \* beta >= 0
        ELSE IF sxx = 0 \/ sxy >= 0 THEN HalfLifeInf
        \* half_life_val <= 0 or half_life_val > 500
        ELSE IF half_life_val.den <= 0 \/ ExceedsFiveHundred(half_life_val)
             THEN HalfLifeInf
        ELSE half_life_val

(* hurst_exponent, cointegration.py lines 98-119 *)

Min(a, b) == IF a < b THEN a ELSE b

\* line 108: range(2, min(100, len(series)//2))
Lags(series) == 2..(Min(100, Len(series) \div 2) - 1)

\* line 109: np.std(series[lag:] - series[:-lag]) is NaN when a difference
\* is not finite, zero when all differences are equal, positive otherwise
Tau(series, lag) ==
    LET d == [i \in 1..(Len(series) - lag) |->
                 FloatSub(series[i + lag], series[i])]
    IN  IF \E i \in DOMAIN d : d[i].k # "fin" THEN "nan"
        ELSE IF \A i, j \in DOMAIN d : d[i].v = d[j].v THEN "zero"
        ELSE "positive"

\* line 111: the lags whose tau is kept
KeptLags(series) == {lag \in Lags(series) : Tau(series, lag) = "positive"}

\* the slope of a fit: the model keeps the points of the fit, not its number
FittedSlope == [k |-> "slope", v |-> 0]

\* 0.5, in hundredths
HurstDefault == [fit |-> FALSE, value |-> Fin(50), lags |-> {}, kept |-> {}]

\* poly[0] of the fit of line 115: the slope of log(tau) of the kept lags
\* on log(lags[:len(tau)]), the first len(tau) lags
HurstSlope(series) ==
    [fit |-> TRUE, value |-> FittedSlope,
     lags |-> 2..(Cardinality(KeptLags(series)) + 1),
     kept |-> KeptLags(series)]

\* without the minimum of ten lags of line 112
hurst_exponent_NoMinimumLags(series, polyfit) ==
    IF polyfit = "raises" \/ KeptLags(series) = {} THEN HurstDefault
    ELSE HurstSlope(series)

\* lines 98-119
hurst_exponent(series, polyfit) ==
    IF Cardinality(KeptLags(series)) < 10 THEN HurstDefault
    \* np.polyfit raises: bare except
    ELSE IF polyfit = "raises" THEN HurstDefault
    ELSE HurstSlope(series)

PolyfitOutcomes == {"ok", "raises"}

----------------------------------------------------------------------------
(* check_risk_limits, risk_tools.py lines 6-46.  Money is in thousands of
   dollars, leverage in hundredths.  A returned dictionary is a record whose
   DOMAIN is the set of its keys. *)

\* the value None passed where a number is expected
NoneValue == [k |-> "none", v |-> 0]

\* a + b of two Python floats
FloatAdd(a, b) ==
    IF a.k = "fin" /\ b.k = "fin" THEN Fin(a.v + b.v) ELSE NotANumber

\* n / d rounded to the nearest integer, d # 0, a tie going to the even one:
\* round(x, 2) of Python when x is counted in hundredths
RoundDiv(n, d) ==
    LET a == IF d < 0 THEN -n ELSE n
        b == IF d < 0 THEN -d ELSE d
        q == a \div b
        r == a - q * b
    IN  IF 2 * r < b THEN q
        ELSE IF 2 * r > b THEN q + 1
        ELSE IF q % 2 = 0 THEN q
        ELSE q + 1

\* round(a / b, 2) of two floats, b a non-zero number, in hundredths
RoundedQuotient(a, b) ==
    IF a.k = "fin" /\ b.k = "fin" THEN Fin(RoundDiv(100 * a.v, b.v))
    ELSE NotANumber

\* a / b > limit, limit in hundredths; False when the quotient is NaN
QuotientExceeds(a, b, limit) ==
    /\ a.k = "fin" /\ b.k = "fin" /\ limit.k = "fin"
    /\ IF b.v > 0 THEN 100 * a.v > limit.v * b.v
       ELSE 100 * a.v < limit.v * b.v

\* lines 20-46
check_risk_limits(current_positions_value, new_trade_value, total_capital, max_leverage) ==
    LET \* line 22
        projected_exposure == FloatAdd(current_positions_value, new_trade_value)
    IN  \* lines 26-27
        IF total_capital.k = "fin" /\ total_capital.v = 0
        THEN [allowed |-> FALSE, reason |-> "Total capital is zero."]
        \* line 29 raises TypeError on None: lines 45-46
        ELSE IF total_capital.k = "none"
        THEN [allowed |-> FALSE, reason |-> "Error"]
        \* lines 32-38
        ELSE IF QuotientExceeds(projected_exposure, total_capital, max_leverage)
        THEN [allowed |-> FALSE, reason |-> "Risk Limit Exceeded",
              current_leverage |->
                  RoundedQuotient(current_positions_value, total_capital),
              new_leverage |->
                  RoundedQuotient(projected_exposure, total_capital)]
        \* lines 40-44
        ELSE [allowed |-> TRUE, reason |-> "Risk checks passed",
              new_leverage |->
                  RoundedQuotient(projected_exposure, total_capital)]

RiskArgs ==
    [current_positions_value : {Fin(0), Fin(50), Fin(190), Fin(-50),
                                NotANumber},
     new_trade_value : {Fin(10), Fin(20), Fin(150), Fin(-20)},
     total_capital : {Fin(0), Fin(100), Fin(7), Fin(-100), NoneValue},
     max_leverage : {Fin(200), Fin(60)}]

----------------------------------------------------------------------------
(* check_correlation, risk_tools.py lines 48-116.  Correlations and the
   threshold are in thousandths; max_correlation is returned in hundredths. *)

\* lines 74-85: what yf.download and returns.corr() produce: an exception,
\* an empty frame, or the correlation matrix, given by its columns and by
\* the row of new_ticker
Downloads ==
    {[k |-> o, columns |-> {}, loc |-> [t \in {"ETR", "NEE"} |-> NotANumber]]
        : o \in {"download raises", "corr raises", "empty"}}
    \cup [k : {"matrix"}, columns : SUBSET {"AEP", "ETR", "NEE"} \ {{}},
          loc : [{"ETR", "NEE"} -> {Fin(304), Fin(851), Fin(896),
                                    NotANumber}]]

RECURSIVE WorstMatch(_, _, _, _, _)
\* lines 91-98: the loop from existing_tickers[i] on, best holding max_corr
\* and conflict_ticker
WorstMatch(new_ticker, existing_tickers, corr_matrix, i, best) ==
    IF i > Len(existing_tickers) THEN best
    ELSE LET ticker == existing_tickers[i]
             corr_val == corr_matrix.loc[ticker]
         IN  WorstMatch(new_ticker, existing_tickers, corr_matrix, i + 1,
                 IF /\ ticker \in corr_matrix.columns
                    /\ new_ticker \in corr_matrix.columns
                    /\ Gt(corr_val, best.max_corr)
                 THEN [max_corr |-> corr_val.v, conflict_ticker |-> ticker]
                 ELSE best)

\* lines 64-116
check_correlation(new_ticker, existing_tickers, correlation_threshold, download) ==
    LET \* lines 87-98
        worst == WorstMatch(new_ticker, existing_tickers, download, 1,
                            [max_corr |-> -1000, conflict_ticker |-> "None"])
    IN  \* lines 64-65
        IF existing_tickers = <<>>
        THEN [allowed |-> TRUE, max_correlation |-> 0,
              reason |-> "Portfolio is empty."]
        \* lines 115-116
        ELSE IF download.k \in {"download raises", "corr raises"}
        THEN [error |-> download.k]
        \* lines 76-77
        ELSE IF download.k = "empty"
        THEN [allowed |-> FALSE, reason |-> "Failed to fetch price data."]
        \* lines 101-107
        ELSE IF worst.max_corr > correlation_threshold
        THEN [allowed |-> FALSE, reason |-> "High correlation detected",
              max_correlation |-> Round2(worst.max_corr),
              conflicting_ticker |-> worst.conflict_ticker]
        \* lines 109-113
        ELSE [allowed |-> TRUE, reason |-> "Correlation check passed",
              max_correlation |-> Round2(worst.max_corr)]

CorrelationArgs ==
    [new_ticker : {"AEP"},
     existing_tickers : {<<>>, <<"ETR">>, <<"ETR", "NEE">>, <<"NEE", "ETR">>},
     correlation_threshold : {850, 900},
     download : Downloads]

----------------------------------------------------------------------------
(* calculate_position_size, allocation_tools.py lines 4-43.  total_capital
   and allocation_amount are in cents, max_allocation_pct in hundredths,
   confidence_score in thousandths, allocation_pct in hundredths of a
   percent. *)

\* line 34 without the rounding half up: the cents are cut off
calculate_position_size_Truncated(total_capital, confidence_score, max_allocation_pct) ==
    IF confidence_score.k = "none"
    THEN [error |-> "TypeError"]
    ELSE IF Lt(confidence_score, 0) \/ Gt(confidence_score, 1000)
    THEN [error |-> "Confidence score must be between 0.0 and 1.0"]
    ELSE IF confidence_score.k = "nan"
    THEN [allocation_amount |-> NotANumber, allocation_pct |-> NotANumber,
          reason |-> "Allocating"]
    ELSE [allocation_amount |->
              Fin((total_capital * max_allocation_pct * confidence_score.v)
                  \div 100000),
          allocation_pct |->
              Fin(RoundDiv(max_allocation_pct * confidence_score.v, 10)),
          reason |-> "Allocating"]

\* lines 24-43
calculate_position_size(total_capital, confidence_score, max_allocation_pct) ==
    \* line 26 raises TypeError on None: lines 42-43
    IF confidence_score.k = "none"
    THEN [error |-> "TypeError"]
    \* lines 26-27
    ELSE IF Lt(confidence_score, 0) \/ Gt(confidence_score, 1000)
    THEN [error |-> "Confidence score must be between 0.0 and 1.0"]
    \* lines 30-41 with a NaN confidence_score
    ELSE IF confidence_score.k = "nan"
    THEN [allocation_amount |-> NotANumber, allocation_pct |-> NotANumber,
          reason |-> "Allocating"]
    \* lines 30-41: target_pct is max_allocation_pct * confidence_score
    \* hundred-thousandths
    ELSE [allocation_amount |->
              Fin(RoundDiv(total_capital * max_allocation_pct
                           * confidence_score.v, 100000)),
          allocation_pct |->
              Fin(RoundDiv(max_allocation_pct * confidence_score.v, 10)),
          reason |-> "Allocating"]

Confidences ==
    {Fin(c) : c \in {-1, 0, 200, 500, 855, 1000, 1001}}
    \cup {NotANumber, NoneValue}

PositionSizeArgs ==
    [total_capital : {0, 3, 10003, 50000, -10003},
     confidence_score : Confidences,
     max_allocation_pct : {20, 7, -20}]

----------------------------------------------------------------------------
(* execute_pairs_trade, execution_tools.py lines 5-99.  A market price is in
   thousandths of a dollar; avg_price and market_price are returned rounded
   to the cent.  The tickers, the share counts (lines 49-65, 84, 91) and
   total_value_executed are left out of the result. *)

\* line 24: what yf.download(...)['Close'] produces: an exception, an empty
\* frame, or the last closes p1 and p2 of the two legs
MarketData ==
    {[k |-> o, p1 |-> 0, p2 |-> 0] : o \in {"download raises", "empty"}}
    \cup [k : {"prices"}, p1 : {4000, 40000, 40004, 152375},
          p2 : {4000, 40000, 40004, 152375}]

\* action.upper() on the actions of ExecutionArgs
Upper(action) ==
    CASE action = "open_long" -> "OPEN_LONG"
      [] action = "short_spread" -> "SHORT_SPREAD"
      [] action = "close" -> "CLOSE"
      [] OTHER -> action

\* lines 48, 52, 60, 64: p * (1 + slip_pct) of a BUY and p * (1 - slip_pct)
\* of a SELL, in ten-millionths of a dollar
ExecPrice(p, side, slippage_bps) ==
    IF side = "BUY" THEN p * (10000 + slippage_bps)
    ELSE p * (10000 - slippage_bps)

\* one leg of lines 81-94
Leg(p, side, slippage_bps) ==
    [side |-> side,
     avg_price |-> RoundDiv(ExecPrice(p, side, slippage_bps), 100000),
     market_price |-> RoundDiv(p, 10)]

\* the slippage applied against the sides: a BUY below and a SELL above the
\* market
execute_pairs_trade_SlippageReversed(action, slippage_bps, data) ==
    IF data.k = "download raises" THEN [error |-> "Exception"]
    ELSE IF data.k = "empty"
    THEN [error |-> "Failed to fetch market prices for execution."]
    ELSE IF Upper(action) \in {"LONG_SPREAD", "OPEN_LONG"}
    THEN [status |-> "FILLED",
          leg1 |-> [Leg(data.p1, "SELL", slippage_bps) EXCEPT !.side = "BUY"],
          leg2 |-> [Leg(data.p2, "BUY", slippage_bps) EXCEPT !.side = "SELL"]]
    ELSE IF Upper(action) \in {"SHORT_SPREAD", "OPEN_SHORT"}
    THEN [status |-> "FILLED",
          leg1 |-> [Leg(data.p1, "BUY", slippage_bps) EXCEPT !.side = "SELL"],
          leg2 |-> [Leg(data.p2, "SELL", slippage_bps) EXCEPT !.side = "BUY"]]
    ELSE IF Upper(action) = "CLOSE"
    THEN [info |-> "Closing logic handled by reversing original trade."]
    ELSE [error |-> "Unknown action"]

\* lines 21-99
execute_pairs_trade(action, slippage_bps, data) ==
    \* line 24 raises: lines 98-99
    IF data.k = "download raises" THEN [error |-> "Exception"]
    \* lines 26-27
    ELSE IF data.k = "empty"
    THEN [error |-> "Failed to fetch market prices for execution."]
    \* lines 46-56 and 77-96
    ELSE IF Upper(action) \in {"LONG_SPREAD", "OPEN_LONG"}
    THEN IF ExecPrice(data.p1, "BUY", slippage_bps) = 0
            \/ ExecPrice(data.p2, "SELL", slippage_bps) = 0
         THEN [error |-> "float division by zero"]
         ELSE [status |-> "FILLED",
               leg1 |-> Leg(data.p1, "BUY", slippage_bps),
               leg2 |-> Leg(data.p2, "SELL", slippage_bps)]
    \* lines 58-68 and 77-96
    ELSE IF Upper(action) \in {"SHORT_SPREAD", "OPEN_SHORT"}
    THEN IF ExecPrice(data.p1, "SELL", slippage_bps) = 0
            \/ ExecPrice(data.p2, "BUY", slippage_bps) = 0
         THEN [error |-> "float division by zero"]
         ELSE [status |-> "FILLED",
               leg1 |-> Leg(data.p1, "SELL", slippage_bps),
               leg2 |-> Leg(data.p2, "BUY", slippage_bps)]
    \* lines 70-72
    ELSE IF Upper(action) = "CLOSE"
    THEN [info |-> "Closing logic handled by reversing original trade."]
    \* lines 74-75
    ELSE [error |-> "Unknown action"]

ExecutionArgs ==
    [action : {"OPEN_LONG", "LONG_SPREAD", "OPEN_SHORT", "SHORT_SPREAD",
               "CLOSE", "open_long", "short_spread", "close", "HOLD",
               "CLOSE_LONG"},
     slippage_bps : {0, 1, 10, 100},
     data : MarketData]

----------------------------------------------------------------------------
(* One iteration of the loop of run_vectorized_backtest, vector_backtest.py
   lines 55-71, called on a z-score given as a float in hundredths *)

\* line 56: the cell of df['Z_Score'] that holds the number z_score / 100
ZOf(z_score) ==
    IF z_score.k = "fin"
    THEN [nan |-> FALSE, num |-> z_score.v, ssd |-> 5000, n |-> 2]
    ELSE ZNaN

\* position in -1, 0, 1; the thresholds in tenths as in the backtest
IterationArgs ==
    [position : {SHORT_SPREAD, FLAT, LONG_SPREAD},
     z_score : {Fin(v) : v \in {-300, -251, -250, -249, -51, -50, -49, -1, 0,
                                1, 49, 50, 51, 249, 250, 251, 300}}
               \cup {NotANumber},
     entry_threshold : {-5, 0, 5, 25},
     exit_threshold : {-5, 0, 5, 25, 30}]

----------------------------------------------------------------------------
(* The spread of run_vectorized_backtest, vector_backtest.py lines 35-41,
   as a function of the price panel and of the hedge_ratio argument.  Prices
   are whole numbers; a ratio and a spread are exact fractions num / den. *)

\* line 36
window_beta == 60

NaNRatio == [nan |-> TRUE, num |-> 0, den |-> 1]

\* lines 37-39: rolling(60).cov(Leg2) / rolling(60).var(), which is
\* (n * sum(xy) - sum(x) * sum(y)) / (n * sum(yy) - sum(y)^2) over the
\* sixty rows ending at t; NaN before sixty rows and 0 / 0 = NaN on a
\* constant Leg2
HedgeRatioRolling(Leg1, Leg2) ==
    [t \in 1..Len(Leg1) |->
        IF WindowFull(Leg1, t, window_beta) /\ WindowFull(Leg2, t, window_beta)
        THEN LET xy == [k \in 1..Len(Leg1) |-> FMul(Leg1[k], Leg2[k])]
                 num == window_beta * WindowSum(xy, t, window_beta)
                        - WindowSum(Leg1, t, window_beta)
                          * WindowSum(Leg2, t, window_beta)
                 den == window_beta * WindowSumSq(Leg2, t, window_beta)
                        - WindowSum(Leg2, t, window_beta)
                          * WindowSum(Leg2, t, window_beta)
             IN  IF den = 0 THEN NaNRatio
                 ELSE [nan |-> FALSE, num |-> num, den |-> den]
        ELSE NaNRatio]

\* the spread built with the supplied hedge ratio, in hundredths:
\* Leg1 - hedge_ratio * Leg2
SpreadColumn_FixedRatio(Leg1, Leg2, hedge_ratio) ==
    [t \in 1..Len(Leg1) |->
        IF Leg1[t].nan \/ Leg2[t].nan THEN NaNRatio
        ELSE [nan |-> FALSE, num |-> 100 * Leg1[t].v - hedge_ratio * Leg2[t].v,
              den |-> 100]]

\* line 41: Leg1 - Hedge_Ratio_Rolling.shift(1) * Leg2; hedge_ratio, the
\* third argument of run_vectorized_backtest, is not read
SpreadColumn(Leg1, Leg2, hedge_ratio) ==
    [t \in 1..Len(Leg1) |->
        LET beta == IF t = 1 THEN NaNRatio
                    ELSE HedgeRatioRolling(Leg1, Leg2)[t - 1]
        IN  IF Leg1[t].nan \/ Leg2[t].nan \/ beta.nan THEN NaNRatio
            ELSE [nan |-> FALSE,
                  num |-> Leg1[t].v * beta.den - beta.num * Leg2[t].v,
                  den |-> beta.den]]

\* hedge_ratio in hundredths; 0.872 is the value of __main__ (line 170)
HedgeRatios == {0, 87, 100, 250}

\* price panels of 60 to 62 days: Leg2 a trend, a saw or a constant, Leg1
\* twice Leg2 plus 3 or another saw, possibly with one missing close
PricePanels ==
    {[Leg1 |-> [t \in 1..n |->
                   IF t = miss THEN NaN
                   ELSE IF k1 = "double"
                        THEN F(2 * (IF k2 = "trend" THEN t
                                    ELSE IF k2 = "saw" THEN t % 5 ELSE 7) + 3)
                        ELSE F(10 + (t % 7))],
      Leg2 |-> [t \in 1..n |->
                   IF k2 = "trend" THEN F(t)
                   ELSE IF k2 = "saw" THEN F(t % 5)
                   ELSE F(7)]] :
        n \in {window_beta, window_beta + 1, window_beta + 2},
        k1 \in {"double", "other"}, k2 \in {"trend", "saw", "constant"},
        miss \in {0, 1, window_beta + 2}}

SpreadArgs == [panel : PricePanels, hedge_ratio : HedgeRatios]

(* filter_qualified_pairs, pair_discovery.py lines 111-137 *)

\* lines 124-125
filter_qualified_pairs(brown_results, green_results) ==
    [brown_qualified |-> IF Len(brown_results) > 0
                         THEN SelectSeq(brown_results, is_qualified)
                         ELSE <<>>,
     green_qualified |-> IF Len(green_results) > 0
                         THEN SelectSeq(green_results, is_qualified)
                         ELSE <<>>]

(* The selection of the top three pairs, pair_discovery.py lines 348-376 and
   191-303.  A DataFrame is the sequence of its rows, each row carrying its
   index label; the DataFrame() without columns is the empty sequence. *)

\* cointegration.py lines 263-264: the scored rows under the labels 0..n-1
\* of reset_index(drop=True)
ResetIndex(rows) ==
    [i \in 1..Len(rows) |->
        [index |-> i - 1, pair |-> rows[i].pair,
         score |-> score_pair(rows[i]),
         correlation |-> rows[i].correlation,
         eg_pvalue |-> rows[i].eg_pvalue,
         half_life |-> rows[i].half_life, hurst |-> rows[i].hurst]]

\* the rows are in descending order of score
SortedByScore(frame) ==
    \A i \in 1..(Len(frame) - 1) : frame[i].score >= frame[i + 1].score

\* what screen_all_pairs returns for a universe whose analysed pairs are
\* those of pool: up to three of them, lines 260-267
ScreenedFrames(pool) ==
    LET orders == UNION {[1..n -> pool] : n \in 0..3}
    IN  {ResetIndex(o) : o \in
            {o \in orders :
                /\ \A i, j \in DOMAIN o : i # j => o[i] # o[j]
                /\ SortedByScore(ResetIndex(o))}}

\* row goes before the first row of frame with a smaller score
InsertByScore(row, frame) ==
    LET before == {i \in 1..Len(frame) : frame[i].score >= row.score}
        n == Cardinality(before)
    IN  SubSeq(frame, 1, n) \o <<row>> \o SubSeq(frame, n + 1, Len(frame))

RECURSIVE SortDescending(_, _)
\* sort_values('score', ascending=False) of the rows frame[i..], every row
\* keeping its index label
SortDescending(frame, i) ==
    IF i > Len(frame) THEN <<>>
    ELSE InsertByScore(frame[i], SortDescending(frame, i + 1))

\* the ranks counted by position: enumerate(top_3.iterrows())
RanksOf_ByPosition(top_3) == [i \in 1..Len(top_3) |-> i]

\* 'for i, row in top_3.iterrows(): rank = i + 1', lines 224-226, 276-279
\* and 296-298: i is the index label of the row
RanksOf(top_3) == [i \in 1..Len(top_3) |-> top_3[i].index + 1]

\* main, lines 364-375, and what save_results writes
select_top_3(brown_results, green_results) ==
    LET \* line 364
        qualified == filter_qualified_pairs(brown_results, green_results)
        \* line 366
        all_qualified ==
            SortDescending(qualified.brown_qualified
                           \o qualified.green_qualified, 1)
        \* line 367
        top_3 == SubSeq(all_qualified, 1,
                        IF Len(all_qualified) < 3 THEN Len(all_qualified)
                        ELSE 3)
    IN  \* line 366: two frames without columns have no column 'score'
        IF Len(brown_results) = 0 /\ Len(green_results) = 0
        THEN [raised |-> "KeyError", top_3 |-> <<>>, text |-> <<>>,
              yaml |-> <<>>, figures |-> <<>>]
        ELSE [raised |-> "no", top_3 |-> top_3,
              \* lines 224-226
              text |-> RanksOf(top_3),
              \* lines 276-279
              yaml |-> RanksOf(top_3),
              \* lines 296-298
              figures |-> [i \in 1..Len(top_3) |->
                              <<RanksOf(top_3)[i], top_3[i].pair>>]]

\* the analysed pairs of the two universes
BrownPool ==
    {[pair |-> "XOM/CVX", correlation |-> Fin(81), eg_pvalue |-> Fin(9),
      half_life |-> Fin(29), hurst |-> Fin(39)],
     [pair |-> "CVX/XOM", correlation |-> Fin(71), eg_pvalue |-> Fin(49),
      half_life |-> Fin(59), hurst |-> Fin(49)],
     [pair |-> "XOM/COP", correlation |-> Fin(81), eg_pvalue |-> Fin(9),
      half_life |-> Fin(5), hurst |-> Fin(39)],
     [pair |-> "COP/XOM", correlation |-> Fin(0), eg_pvalue |-> Fin(1000),
      half_life |-> PosInf, hurst |-> Fin(50)]}

GreenPool ==
    {[pair |-> "NEE/FSLR", correlation |-> Fin(71), eg_pvalue |-> Fin(9),
      half_life |-> Fin(59), hurst |-> Fin(49)],
     [pair |-> "FSLR/NEE", correlation |-> Fin(71), eg_pvalue |-> Fin(99),
      half_life |-> Fin(119), hurst |-> Fin(59)],
     [pair |-> "NEE/ENPH", correlation |-> Fin(71), eg_pvalue |-> Fin(9),
      half_life |-> Fin(5), hurst |-> Fin(39)],
     [pair |-> "ENPH/NEE", correlation |-> Fin(0), eg_pvalue |-> Fin(1000),
      half_life |-> PosInf, hurst |-> Fin(50)]}

SelectionArgs == [brown_results : ScreenedFrames(BrownPool),
                  green_results : ScreenedFrames(GreenPool)]

(* analyze_pair, cointegration.py lines 121-188 *)

\* a step of the pipeline that raises instead of returning a value
Raised == [k |-> "raised", v |-> 0]

\* 'score': None
NoneScore == [k |-> "none", v |-> 0]

\* The steps of lines 130-148 in the order they run, each with the values
\* it may return
PipelineSteps == <<"columns", "correlation", "engle_granger_test",
                   "calculate_hedge_ratio", "adf_test", "half_life",
                   "hurst_exponent">>

StepOutcomes ==
    [columns : {Fin(1), Raised},
     correlation : {Fin(95), NotANumber, Raised},
     engle_granger_test : {Fin(10), Fin(200), Raised},
     calculate_hedge_ratio : {Fin(1), Raised},
     adf_test : {Fin(10), Fin(300), Raised},
     half_life : {Fin(20), PosInf, Raised},
     hurst_exponent : {Fin(40), Fin(50), Raised}]

\* lines 171-188: the result of the except branch
SentinelResult ==
    [correlation |-> Fin(0), eg_pvalue |-> Fin(1000), cointegrated |-> FALSE,
     hedge_ratio |-> Fin(0), adf_pvalue |-> Fin(1000),
     spread_stationary |-> FALSE, half_life |-> PosInf, hurst |-> Fin(50),
     mean_reverting |-> FALSE, score |-> Fin(0)]

\* lines 154-170: the result of a pipeline that ran through
ComputedResult(outcome) ==
    [correlation |-> outcome.correlation,
     eg_pvalue |-> outcome.engle_granger_test,
     cointegrated |-> Lt(outcome.engle_granger_test, 50),
     hedge_ratio |-> outcome.calculate_hedge_ratio,
     adf_pvalue |-> outcome.adf_test,
     spread_stationary |-> Lt(outcome.adf_test, 50),
     half_life |-> outcome.half_life,
     hurst |-> outcome.hurst_exponent,
     mean_reverting |-> Lt(outcome.hurst_exponent, 50),
     score |-> NoneScore]

\* the column lookup of lines 130-131 placed before the try
analyze_pair_LookupOutsideTry(outcome) ==
    IF outcome.columns = Raised
    THEN [raised |-> TRUE, value |-> SentinelResult]
    ELSE IF \E i \in DOMAIN PipelineSteps : outcome[PipelineSteps[i]] = Raised
    THEN [raised |-> FALSE, value |-> SentinelResult]
    ELSE [raised |-> FALSE, value |-> ComputedResult(outcome)]

\* lines 129-188: the first step that raises ends the try block, and the
\* except branch returns the sentinel
analyze_pair(outcome) ==
    IF \E i \in DOMAIN PipelineSteps : outcome[PipelineSteps[i]] = Raised
    THEN [raised |-> FALSE, value |-> SentinelResult]
    ELSE [raised |-> FALSE, value |-> ComputedResult(outcome)]

(* The calls of these functions *)

\* the rows of a screening result that filter_qualified_pairs is given
SampleRows ==
    {[correlation |-> Fin(0), eg_pvalue |-> Fin(1000), half_life |-> PosInf,
      hurst |-> Fin(50)],
     [correlation |-> Fin(81), eg_pvalue |-> Fin(9), half_life |-> Fin(29),
      hurst |-> Fin(39)],
     [correlation |-> Fin(81), eg_pvalue |-> Fin(9), half_life |-> PosInf,
      hurst |-> Fin(39)],
     [correlation |-> Fin(61), eg_pvalue |-> Fin(149), half_life |-> Fin(150),
      hurst |-> Fin(69)]}

ScreenedLists ==
    {<<>>} \cup {<<r>> : r \in PairResults}
           \cup {<<a, b, c>> : a, b, c \in SampleRows}

FilterArgs == [brown_results : ScreenedLists,
               green_results : {<<>>} \cup {<<a, b>> : a, b \in SampleRows}]

NotReturned == [done |-> FALSE]

Returned(value) == [done |-> TRUE, raised |-> FALSE, value |-> value]

\* no backtest is running
NoBacktest ==
    /\ pc = "none"
    /\ entry_threshold = 0 /\ exit_threshold = 0 /\ lookback_window = 0
    /\ Spread = <<>> /\ Z_Score = <<>> /\ position = 0 /\ signals = <<>>
    /\ df = EmptyDf /\ strat_metrics = NoMetrics

InitCalls ==
    /\ NoBacktest /\ NoScreening /\ NoOptimizer
    /\ ret = NotReturned
    /\ \/ tool = "score_pair"
          /\ args \in PairResults \cup {SentinelResult}
       \/ tool = "analyze_pair" /\ args \in StepOutcomes
       \/ tool = "filter_qualified_pairs" /\ args \in FilterArgs
       \/ tool = "half_life"
          /\ args \in [spread : SeriesInputs, degenerate : DegenerateFits]
       \/ tool = "hurst_exponent"
          /\ args \in [series : SeriesInputs, polyfit : PolyfitOutcomes]
       \/ tool = "generate_trade_signal" /\ args \in SignalArgs
       \/ tool = "check_risk_limits" /\ args \in RiskArgs
       \/ tool = "check_correlation" /\ args \in CorrelationArgs
       \/ tool = "calculate_position_size" /\ args \in PositionSizeArgs
       \/ tool = "execute_pairs_trade" /\ args \in ExecutionArgs
       \/ tool = "iteration" /\ args \in IterationArgs
       \/ tool = "spread" /\ args \in SpreadArgs
       \/ tool = "select_top_3" /\ args \in SelectionArgs

CallScorePair ==
    /\ tool = "score_pair" /\ ~ret.done
    /\ ret' = Returned(score_pair(args))
    /\ UNCHANGED <<backtestVars, tool, args, screening, optimizer>>

CallAnalyzePair ==
    /\ tool = "analyze_pair" /\ ~ret.done
    /\ ret' = [done |-> TRUE, raised |-> analyze_pair(args).raised,
               value |-> analyze_pair(args).value]
    /\ UNCHANGED <<backtestVars, tool, args, screening, optimizer>>

CallFilterQualifiedPairs ==
    /\ tool = "filter_qualified_pairs" /\ ~ret.done
    /\ ret' = Returned(filter_qualified_pairs(args.brown_results,
                                              args.green_results))
    /\ UNCHANGED <<backtestVars, tool, args, screening, optimizer>>

CallHalfLife ==
    /\ tool = "half_life" /\ ~ret.done
    /\ ret' = Returned(half_life(args.spread, args.degenerate))
    /\ UNCHANGED <<backtestVars, tool, args, screening, optimizer>>

CallHurstExponent ==
    /\ tool = "hurst_exponent" /\ ~ret.done
    /\ ret' = Returned(hurst_exponent(args.series, args.polyfit))
    /\ UNCHANGED <<backtestVars, tool, args, screening, optimizer>>

CallGenerateTradeSignal ==
    /\ tool = "generate_trade_signal" /\ ~ret.done
    /\ ret' = Returned(generate_trade_signal(args.z_score,
                                             args.entry_threshold,
                                             args.exit_threshold))
    /\ UNCHANGED <<backtestVars, tool, args, screening, optimizer>>

CallCheckRiskLimits ==
    /\ tool = "check_risk_limits" /\ ~ret.done
    /\ ret' = Returned(check_risk_limits(args.current_positions_value,
                                         args.new_trade_value,
                                         args.total_capital,
                                         args.max_leverage))
    /\ UNCHANGED <<backtestVars, tool, args, screening, optimizer>>

CallCheckCorrelation ==
    /\ tool = "check_correlation" /\ ~ret.done
    /\ ret' = Returned(check_correlation(args.new_ticker, args.existing_tickers,
                                         args.correlation_threshold,
                                         args.download))
    /\ UNCHANGED <<backtestVars, tool, args, screening, optimizer>>

CallCalculatePositionSize ==
    /\ tool = "calculate_position_size" /\ ~ret.done
    /\ ret' = Returned(calculate_position_size(args.total_capital,
                                               args.confidence_score,
                                               args.max_allocation_pct))
    /\ UNCHANGED <<backtestVars, tool, args, screening, optimizer>>

CallExecutePairsTrade ==
    /\ tool = "execute_pairs_trade" /\ ~ret.done
    /\ ret' = Returned(execute_pairs_trade(args.action, args.slippage_bps,
                                           args.data))
    /\ UNCHANGED <<backtestVars, tool, args, screening, optimizer>>

CallIteration ==
    /\ tool = "iteration" /\ ~ret.done
    /\ ret' = Returned(Iteration(args.position, ZOf(args.z_score),
                                 args.entry_threshold, args.exit_threshold))
    /\ UNCHANGED <<backtestVars, tool, args, screening, optimizer>>

CallSpread ==
    /\ tool = "spread" /\ ~ret.done
    /\ ret' = Returned(SpreadColumn(args.panel.Leg1, args.panel.Leg2,
                                   args.hedge_ratio))
    /\ UNCHANGED <<backtestVars, tool, args, screening, optimizer>>

CallSelectTop3 ==
    /\ tool = "select_top_3" /\ ~ret.done
    /\ ret' = Returned(select_top_3(args.brown_results, args.green_results))
    /\ UNCHANGED <<backtestVars, tool, args, screening, optimizer>>

NextCalls ==
    \/ CallScorePair
    \/ CallAnalyzePair
    \/ CallFilterQualifiedPairs
    \/ CallHalfLife
    \/ CallHurstExponent
    \/ CallGenerateTradeSignal
    \/ CallCheckRiskLimits
    \/ CallCheckCorrelation
    \/ CallCalculatePositionSize
    \/ CallExecutePairsTrade
    \/ CallIteration
    \/ CallSpread
    \/ CallSelectTop3

SpecCalls == InitCalls /\ [][NextCalls]_vars
----------------------------------------------------------------------------
(* Claims about the pair analysis *)

\* the points of the first tier that holds, the tiers checked in the order
\* they are listed; no points when none holds
FirstTier(tiers) ==
    IF \E i \in DOMAIN tiers : tiers[i].holds
    THEN LET first == CHOOSE i \in DOMAIN tiers :
                         /\ tiers[i].holds
                         /\ \A j \in 1..(i - 1) : ~tiers[j].holds
         IN  tiers[first].points
    ELSE 0

BelowOf(x, c) == x.k = "fin" /\ x.v < c

AboveOf(x, c) == x.k = "fin" /\ x.v > c

CointegrationPoints(r) ==
    FirstTier(<<[holds |-> BelowOf(r.eg_pvalue, 10), points |-> 50],
                [holds |-> BelowOf(r.eg_pvalue, 50), points |-> 30],
                [holds |-> BelowOf(r.eg_pvalue, 100), points |-> 20]>>)

MeanReversionPoints(r) ==
    FirstTier(<<[holds |-> BelowOf(r.hurst, 40) /\ BelowOf(r.half_life, 30),
                 points |-> 30],
                [holds |-> BelowOf(r.hurst, 50) /\ BelowOf(r.half_life, 60),
                 points |-> 20],
                [holds |-> BelowOf(r.hurst, 60) /\ BelowOf(r.half_life, 120),
                 points |-> 10]>>)

CorrelationPoints(r) ==
    FirstTier(<<[holds |-> AboveOf(r.correlation, 80), points |-> 20],
                [holds |-> AboveOf(r.correlation, 70), points |-> 15],
                [holds |-> AboveOf(r.correlation, 60), points |-> 10]>>)

\* C11: score_pair returns the sum of three components, each the points of
\* at most one tier, the tiers checked in descending order: cointegration
\* 50/30/20 for eg_pvalue < 0.01/0.05/0.10, mean reversion 30/20/10 for
\* (hurst < 0.4 and half_life < 30)/(hurst < 0.5 and half_life < 60)/
\* (hurst < 0.6 and half_life < 120), correlation 20/15/10 for
\* correlation > 0.8/0.7/0.6.  So every score lies in [0, 100], a result
\* with half_life = +inf gets no mean-reversion points, and the neutral
\* sentinel result scores 0.
C11_ScoreIsSumOfTiers ==
    (tool = "score_pair" /\ ret.done) =>
        /\ ret.value = CointegrationPoints(args) + MeanReversionPoints(args)
                           + CorrelationPoints(args)
        /\ ret.value \in 0..100
        /\ args.half_life = PosInf =>
               ret.value = CointegrationPoints(args) + CorrelationPoints(args)
        /\ args = SentinelResult => ret.value = 0

\* a result with a strong Hurst exponent, several tiers of cointegration and
\* correlation satisfied at once, and an infinite half-life: 50 + 0 + 20
C11_Witness ==
    /\ tool = "score_pair" /\ ret.done
    /\ args.half_life = PosInf /\ args.hurst = Fin(39)
    /\ args.eg_pvalue = Fin(9) /\ args.correlation = Fin(81)
    /\ ret.value = 70

\* C12: analyze_pair(data, ticker_a, ticker_b) never propagates an exception
\* raised by a step of its pipeline (column lookup, correlation,
\* cointegration test, hedge ratio, ADF test, half-life, Hurst): on any such
\* failure it returns the neutral sentinel result with cointegrated = False,
\* spread_stationary = False, mean_reverting = False, eg_pvalue = 1,
\* half_life = +inf, hurst = 0.5 and score = 0.
C12_AnalyzePairReturnsSentinel ==
    (tool = "analyze_pair" /\ ret.done) =>
        /\ ~ret.raised
        /\ (\E i \in DOMAIN PipelineSteps : args[PipelineSteps[i]] = Raised) =>
               /\ ret.value.cointegrated = FALSE
               /\ ret.value.spread_stationary = FALSE
               /\ ret.value.mean_reverting = FALSE
               /\ ret.value.eg_pvalue = Fin(1000)
               /\ ret.value.half_life = PosInf
               /\ ret.value.hurst = Fin(50)
               /\ ret.value.score = Fin(0)

\* the column lookup raises (a ticker that is not a column of the panel)
\* and the call returns the sentinel
C12_Witness ==
    /\ tool = "analyze_pair" /\ ret.done
    /\ args.columns = Raised
    /\ args.engle_granger_test = Fin(10)
    /\ ~ret.raised
    /\ ret.value.score = Fin(0)

\* the qualification rule as the claim states it
Qualifies(row) ==
    /\ BelowOf(row.eg_pvalue, 150)
    /\ AboveOf(row.correlation, 60)
    /\ row.half_life.k = "fin" /\ row.half_life.v \in 6..149
    /\ BelowOf(row.hurst, 70)

SetOf(rows) == {rows[i] : i \in DOMAIN rows}

KeepsTheQualified(screened, qualified) ==
    /\ qualified = SelectSeq(screened, Qualifies)
    /\ \A row \in SetOf(qualified) :
           /\ row.half_life # PosInf
           /\ row.eg_pvalue # SentinelResult.eg_pvalue
    /\ SetOf(qualified) \subseteq SetOf(screened)

\* C15: filter_qualified_pairs keeps a screened pair if and only if
\* eg_pvalue < 0.15 and correlation > 0.60 and 5 < half_life < 150 and
\* hurst < 0.70, all bounds strict; so a pair with half_life = +inf, and the
\* neutral sentinel result, never qualify, and the qualified pairs are
\* always among the screened pairs.
C15_FilterKeepsExactlyTheQualified ==
    (tool = "filter_qualified_pairs" /\ ret.done) =>
        /\ KeepsTheQualified(args.brown_results, ret.value.brown_qualified)
        /\ KeepsTheQualified(args.green_results, ret.value.green_qualified)

\* a screening result of three pairs of which one has a half-life of
\* exactly 150 days, one an infinite half-life and one qualifies
C15_Witness ==
    /\ tool = "filter_qualified_pairs" /\ ret.done
    /\ Len(args.brown_results) = 3
    /\ args.brown_results[1].half_life = Fin(150)
    /\ args.brown_results[2].half_life = PosInf
    /\ ret.value.brown_qualified = <<args.brown_results[3]>>

\* the AR(1) regression of the claim: the rows with a lagged spread and a
\* spread change, and the sign of the slope sum(lag * diff) / sum(lag * lag)
Observations(spread) == AlignedRows(DropNa(spread))

FiniteObservations(spread) ==
    \A t \in Observations(spread) :
        DropNa(spread)[t].k = "fin" /\ DropNa(spread)[t - 1].k = "fin"

SlopeNumerator(spread) == SumProducts(DropNa(spread), Observations(spread), FALSE)

SlopeDenominator(spread) == SumProducts(DropNa(spread), Observations(spread), TRUE)

\* C17: half_life never raises and returns +inf or a finite value in
\* (0, 500]; it returns +inf whenever the AR(1) slope of the spread change
\* on the lagged spread is >= 0, whenever fewer than 10 aligned observations
\* are available, and whenever the computed half-life is non-positive,
\* greater than 500 or not finite.
C17_HalfLifeInfOrInRange ==
    (tool = "half_life" /\ ret.done) =>
        LET h == ret.value
            sxx == SlopeDenominator(args.spread)
            sxy == SlopeNumerator(args.spread)
        IN  /\ ~ret.raised
            /\ \/ h = HalfLifeInf
               \/ /\ h.k = "fin" /\ h.num > 0 /\ h.den > 0
                  /\ 6931 * h.num <= 5000000 * h.den
            /\ Cardinality(Observations(args.spread)) < 10 => h = HalfLifeInf
            /\ ~FiniteObservations(args.spread) => h = HalfLifeInf
            /\ (FiniteObservations(args.spread) /\ (sxx = 0 \/ sxy >= 0)) =>
                   h = HalfLifeInf
            /\ (FiniteObservations(args.spread) /\ sxx > 0 /\ sxy < 0
                    /\ 6931 * sxx > 5000000 * (-sxy)) =>
                   h = HalfLifeInf

\* a spread of 27 points with a negative slope whose half-life is 506 days
C17_Witness ==
    /\ tool = "half_life" /\ ret.done
    /\ Len(args.spread) = 27
    /\ FiniteObservations(args.spread)
    /\ SlopeNumerator(args.spread) < 0
    /\ 6931 * SlopeDenominator(args.spread)
           > 5000000 * (-SlopeNumerator(args.spread))
    /\ ret.value = HalfLifeInf

\* C18: hurst_exponent never raises and returns exactly 0.5 whenever fewer
\* than 10 lags yield a positive finite standard deviation of the lagged
\* differences; in particular for every series shorter than 24 points and
\* for every constant series.
C18_HurstDefault ==
    (tool = "hurst_exponent" /\ ret.done) =>
        LET series == args.series
            constant == \A i, j \in DOMAIN series :
                            series[i].k = "fin" /\ series[i] = series[j]
        IN  /\ ~ret.raised
            /\ Cardinality({lag \in Lags(series) :
                               Tau(series, lag) = "positive"}) < 10 =>
                   (~ret.value.fit /\ ret.value.value = Fin(50))
            /\ Len(series) < 24 => ret.value.value = Fin(50)
            /\ constant => ret.value.value = Fin(50)

\* a series of 28 points of which only the six odd lags have a positive
\* standard deviation
C18_Witness ==
    /\ tool = "hurst_exponent" /\ ret.done
    /\ Len(args.series) = 28
    /\ args.polyfit = "ok"
    /\ KeptLags(args.series) = {3, 5, 7, 9, 11, 13}
    /\ ret.value.value = Fin(50)

(* Claims about the signal tool *)

\* C19: for every z_score, entry_threshold and exit_threshold, the 'signal'
\* field returned by generate_trade_signal is one of OPEN_LONG, OPEN_SHORT,
\* CLOSE_LONG, CLOSE_SHORT, HOLD, as its docstring lists.
C19_SignalIsDocumented ==
    (tool = "generate_trade_signal" /\ ret.done) =>
        ret.value.signal \in {"OPEN_LONG", "OPEN_SHORT", "CLOSE_LONG",
                              "CLOSE_SHORT", "HOLD"}

CloseSignals == {"CLOSE", "CLOSE_LONG", "CLOSE_SHORT"}

OpenSignals == {"OPEN_LONG", "OPEN_SHORT"}

\* C20: generate_trade_signal returns OPEN_SHORT whenever
\* z_score > entry_threshold, OPEN_LONG whenever z_score < -entry_threshold,
\* a close signal only when neither entry condition holds and
\* |z_score| < exit_threshold, and HOLD otherwise, the entry conditions
\* taking precedence over the close condition; its confidence is always in
\* [0.0, 1.0], at least 0.6 for an OPEN signal, 1.0 for a close and 0.0 for
\* HOLD.
C20_SignalRules ==
    (tool = "generate_trade_signal" /\ ret.done) =>
        LET z == args.z_score
            above == z.k = "inf" \/ (z.k = "fin" /\ z.v > args.entry_threshold)
            below == z.k = "ninf"
                         \/ (z.k = "fin" /\ z.v < -args.entry_threshold)
            near == z.k = "fin" /\ Abs(z.v) < args.exit_threshold
            signal == ret.value.signal
            confidence == ret.value.confidence
        IN  /\ above => signal = "OPEN_SHORT"
            /\ below => signal = "OPEN_LONG"
            /\ signal \in CloseSignals <=> (~above /\ ~below /\ near)
            /\ (~above /\ ~below /\ ~near) => signal = "HOLD"
            /\ signal \in OpenSignals \cup CloseSignals \cup {"HOLD"}
            /\ confidence \in 0..100
            /\ signal \in OpenSignals => confidence >= 60
            /\ signal \in CloseSignals => confidence = 100
            /\ signal = "HOLD" => confidence = 0

\* a z-score of 2.63 above the entry threshold 2.5 and below the exit
\* threshold 3.0: OPEN_SHORT with confidence 0.65
C20_Witness ==
    /\ tool = "generate_trade_signal" /\ ret.done
    /\ args = [z_score |-> Fin(263), entry_threshold |-> 250,
               exit_threshold |-> 300]
    /\ ret.value = [signal |-> "OPEN_SHORT", confidence |-> 65]

----------------------------------------------------------------------------
(* Claims about the risk, allocation and execution tools *)

\* (a + b) / c <= limit as a statement about numbers: it holds of no
\* quotient that is not a number
RatioWithinLimit(a, b, c, limit) ==
    /\ a.k = "fin" /\ b.k = "fin" /\ c.k = "fin" /\ limit.k = "fin"
    /\ c.v # 0
    /\ IF c.v > 0 THEN 100 * (a.v + b.v) <= limit.v * c.v
       ELSE 100 * (a.v + b.v) >= limit.v * c.v

\* C21: check_risk_limits returns allowed = True exactly when total_capital
\* is non-zero and (current_positions_value + new_trade_value) /
\* total_capital <= max_leverage, allowed = False otherwise, and every
\* result has the keys 'allowed' and 'reason'
C21_RiskLimitDecision ==
    (tool = "check_risk_limits" /\ ret.done) =>
        /\ ~ret.raised
        /\ {"allowed", "reason"} \subseteq DOMAIN ret.value
        /\ ret.value.allowed
           = RatioWithinLimit(args.current_positions_value,
                              args.new_trade_value, args.total_capital,
                              args.max_leverage)

\* C22: every result of check_correlation, also when the download or the
\* correlation computation raises, has the boolean key 'allowed'
C22_CorrelationResultHasDecision ==
    (tool = "check_correlation" /\ ret.done) =>
        /\ ~ret.raised
        /\ "allowed" \in DOMAIN ret.value
        /\ ret.value.allowed \in BOOLEAN

\* a correlation between new_ticker and ticker was computed and does not
\* exceed the threshold
ComputedAndWithin(ticker) ==
    /\ args.download.k = "matrix"
    /\ {args.new_ticker, ticker} \subseteq args.download.columns
    /\ args.download.loc[ticker].k = "fin"
    /\ args.download.loc[ticker].v <= args.correlation_threshold

\* C29: check_correlation returns allowed = True for a non-empty portfolio
\* only if the correlation of the new ticker with every existing ticker was
\* computed and none exceeds correlation_threshold
C29_ApprovalNeedsEveryCorrelation ==
    (/\ tool = "check_correlation" /\ ret.done
     /\ args.existing_tickers # <<>>
     /\ "allowed" \in DOMAIN ret.value
     /\ ret.value.allowed) =>
        \A i \in 1..Len(args.existing_tickers) :
            ComputedAndWithin(args.existing_tickers[i])

\* total_capital * max_allocation_pct * confidence_score, in
\* hundred-thousandths of a cent
ExactAllocation(confidence_score) ==
    args.total_capital * args.max_allocation_pct * confidence_score.v

InUnitInterval(confidence_score) ==
    confidence_score.k = "fin" /\ confidence_score.v \in 0..1000

\* the call returns an error and no allocation
ErrorOnly == "error" \in DOMAIN ret.value
             /\ "allocation_amount" \notin DOMAIN ret.value

Filled == "status" \in DOMAIN ret.value /\ ret.value.status = "FILLED"

\* an error and no fill
ErrorWithoutFill == "error" \in DOMAIN ret.value /\ ~Filled

\* the leg is a BUY filled above, or a SELL filled below, its market price
SlippageAgainst(leg) ==
    IF leg.side = "BUY" THEN leg.avg_price > leg.market_price
    ELSE leg.avg_price < leg.market_price

\* the leg is a BUY filled at or above, or a SELL filled at or below, its
\* market price, and not at it when price * slip_pct is a cent or more
SlippageNotFor(leg, p) ==
    /\ IF leg.side = "BUY" THEN leg.avg_price >= leg.market_price
       ELSE leg.avg_price <= leg.market_price
    /\ p * args.slippage_bps >= 100000 => SlippageAgainst(leg)

\* the sides of the two legs that the action asks for
SidesOf(action) ==
    IF Upper(action) \in {"OPEN_LONG", "LONG_SPREAD"} THEN <<"BUY", "SELL">>
    ELSE IF Upper(action) \in {"OPEN_SHORT", "SHORT_SPREAD"}
    THEN <<"SELL", "BUY">>
    ELSE <<>>

----------------------------------------------------------------------------
(* The backtest against the signal tool *)

\* the signal of generate_trade_signal for the arguments of the iteration,
\* its thresholds converted from tenths to hundredths
SignalOfIteration ==
    generate_trade_signal(args.z_score, 10 * args.entry_threshold,
                          10 * args.exit_threshold).signal

\* C25: for a defined z-score and entry_threshold >= exit_threshold >= 0 the
\* loop of the backtest opens SHORT_SPREAD (LONG_SPREAD) from FLAT exactly
\* when generate_trade_signal returns OPEN_SHORT (OPEN_LONG), and closes an
\* open position exactly when generate_trade_signal returns CLOSE
C25_BacktestAlignsWithSignalTool ==
    (/\ tool = "iteration" /\ ret.done
     /\ args.z_score.k = "fin"
     /\ args.entry_threshold >= args.exit_threshold
     /\ args.exit_threshold >= 0) =>
        IF args.position = FLAT
        THEN /\ (ret.value.position = SHORT_SPREAD)
                = (SignalOfIteration = "OPEN_SHORT")
             /\ (ret.value.position = LONG_SPREAD)
                = (SignalOfIteration = "OPEN_LONG")
        ELSE (ret.value.position = FLAT) = (SignalOfIteration = "CLOSE")

\* an open position closed on a z-score inside the exit band, with
\* thresholds that satisfy the premise
C25_Witness ==
    /\ tool = "iteration" /\ ret.done
    /\ args.z_score.k = "fin"
    /\ args.entry_threshold >= args.exit_threshold
    /\ args.exit_threshold > 0
    /\ args.position # FLAT
    /\ ret.value.position = FLAT
    /\ SignalOfIteration = "CLOSE"

----------------------------------------------------------------------------
(* The regression of hurst_exponent *)

\* C27: in hurst_exponent every standard deviation kept for the regression
\* is paired with the log of the lag it was computed from: the lags of the
\* fit are the lags whose tau was kept, whichever lags were dropped
C27_TauPairedWithItsLag ==
    (tool = "hurst_exponent" /\ ret.done /\ ret.value.fit) =>
        ret.value.lags = ret.value.kept

----------------------------------------------------------------------------
(* The hedge ratio of the backtest *)

\* C28: the hedge_ratio argument of run_vectorized_backtest has no effect:
\* the spread, from which alone the z-score, the positions, the PnL and the
\* costs are computed, is the same for every supplied hedge_ratio, since it
\* is built from the rolling 60-day ratio of the previous day; so there is
\* no spread on the first 60 days whatever ratio is supplied
C28_HedgeRatioHasNoEffect ==
    (tool = "spread" /\ ret.done) =>
        /\ \A h \in HedgeRatios :
               SpreadColumn(args.panel.Leg1, args.panel.Leg2, h) = ret.value
        /\ \A t \in 1..Len(ret.value) :
               /\ t <= window_beta => ret.value[t].nan
               /\ ~ret.value[t].nan =>
                      ~HedgeRatioRolling(args.panel.Leg1,
                                         args.panel.Leg2)[t - 1].nan

\* a panel long enough for a spread, with a supplied ratio of 0.87
C28_Witness ==
    /\ tool = "spread" /\ ret.done
    /\ args.hedge_ratio = 87
    /\ \E t \in 1..Len(ret.value) : ~ret.value[t].nan /\ ret.value[t].num # 0

----------------------------------------------------------------------------
(* The day a transaction cost is charged *)

\* C30, as the specification states it: the cost of a position change is
\* charged on the day the lagged position changes, so the cost of a
\* position decided on day T is subtracted from the net PnL of day T + 1 and
\* not of day T
C30_CostOnApplicationDay ==
    Finished =>
        \A t \in 3..Len(df.Position) :
            LET applied == Abs(df.Position[t - 1] - df.Position[t - 2])
            IN  /\ df.Transaction_Costs[t] = F(cost_per_trade * applied)
                /\ df.Net_PnL[t]
                   = FSub(df.Strategy_PnL_Daily[t], F(cost_per_trade * applied))

\* C30, amended: the cost of a position change is charged on the day the
\* position is decided: a position decided on day T has its cost subtracted
\* from the net PnL of day T, whose gross PnL still comes from the position
\* of day T - 1; the new position first contributes to the gross PnL on day
\* T + 1, and day T + 1 is charged only for a change decided on day T + 1
C30_CostOnDecisionDay ==
    Finished =>
        \A t \in 2..Len(df.Position) :
            LET decided == Abs(df.Position[t] - df.Position[t - 1])
            IN  decided # 0 =>
                /\ df.Strategy_PnL_Daily[t]
                   = FMul(F(df.Position[t - 1]), df.Spread_Change[t])
                /\ df.Transaction_Costs[t] = F(cost_per_trade * decided)
                /\ df.Net_PnL[t]
                   = FSub(df.Strategy_PnL_Daily[t], F(cost_per_trade * decided))
                /\ t < Len(df.Position) =>
                    /\ df.Strategy_PnL_Daily[t + 1]
                       = FMul(F(df.Position[t]), df.Spread_Change[t + 1])
                    /\ df.Transaction_Costs[t + 1]
                       = F(cost_per_trade
                           * Abs(df.Position[t + 1] - df.Position[t]))

\* a position opened from flat on day t and held on day t + 1: day t bears
\* the cost and no gross PnL, day t + 1 a gross PnL and no cost
C30_Witness ==
    /\ pc = "done"
    /\ \E t \in 3..(Len(df.Position) - 1) :
        /\ df.Position[t - 2] = FLAT /\ df.Position[t - 1] = FLAT
        /\ df.Position[t] # FLAT /\ df.Position[t + 1] = df.Position[t]
        /\ df.Strategy_PnL_Daily[t] = F(0)
        /\ df.Net_PnL[t] = F(-cost_per_trade)
        /\ ~df.Strategy_PnL_Daily[t + 1].nan
        /\ df.Strategy_PnL_Daily[t + 1].v # 0
        /\ df.Net_PnL[t + 1] = df.Strategy_PnL_Daily[t + 1]

\* C26: whenever the pair-discovery pipeline writes its selection, whatever
\* mix of brown and green pairs was selected, the selected rows are in
\* descending order of score and the ranks written to the text file, to the
\* YAML configuration and into the figure file names are 1, 2, 3 in that
\* order (1..n when only n < 3 pairs qualified), hence distinct.
C26_RanksAreOneTwoThree ==
    (tool = "select_top_3" /\ ret.done /\ ret.value.raised = "no") =>
        LET out == ret.value
            n == Len(out.top_3)
        IN  /\ SortedByScore(out.top_3)
            /\ out.text = [i \in 1..n |-> i]
            /\ out.yaml = [i \in 1..n |-> i]
            /\ \A i \in 1..n : out.figures[i][1] = i
----------------------------------------------------------------------------
(***************************************************************************)
(* screen_all_pairs, cointegration.py lines 224-267.  The fetcher and the  *)
(* analyzer are arguments: what a call of one of their methods does (it    *)
(* raises, or it returns a panel of so many rows, or a result with such a  *)
(* score) is chosen when the call is made.                                 *)
(***************************************************************************)

\* stocks_a and stocks_b
StockLists == {<<"XOM", "CVX">>, <<"XOM", "CVX", "BP">>}

\* The analyzer: an instance of the class CointegrationAnalyzer of lines
\* 16-221, or another object with the two methods that lines 247 and 252
\* call, analyze_pair(stock_a, stock_b, ticker_a, ticker_b) and
\* calculate_pair_score(result)
Analyzers == {"CointegrationAnalyzer", "other"}

\* fetcher.fetch_pair(ticker_a, ticker_b): raises, or returns a panel
FetchOutcomes == {[raised |-> TRUE, rows |-> 0],
                  [raised |-> FALSE, rows |-> 499],
                  [raised |-> FALSE, rows |-> 500]}

\* lines 247-252: analyzer.analyze_pair(data[ticker_a], data[ticker_b],
\* ticker_a, ticker_b) followed by analyzer.calculate_pair_score(result).
\* CointegrationAnalyzer.analyze_pair (line 121) takes data, ticker_a and
\* ticker_b, so the call with four arguments raises TypeError; the class
\* has no method calculate_pair_score either.
AnalysisOutcomes(analyzer) ==
    IF analyzer = "CointegrationAnalyzer"
    THEN {[raised |-> TRUE, score |-> 0]}
    ELSE {[raised |-> TRUE, score |-> 0],
          [raised |-> FALSE, score |-> 30],
          [raised |-> FALSE, score |-> 70]}

\* the loop variables after the pair (i, j): lines 233-234
Advance(s) ==
    IF s.j < Len(s.stocks_b)
    THEN [s EXCEPT !.j = s.j + 1]
    ELSE [s EXCEPT !.i = s.i + 1, !.j = 1]

\* an exception of one pair leaves the loop
ScreenIteration_FailureEndsLoop(s, fetch, analysis) ==
    LET ticker_a == s.stocks_a[s.i]
        ticker_b == s.stocks_b[s.j]
        call == [pair |-> <<ticker_a, ticker_b>>, fetch |-> fetch,
                 analysis |-> "not called"]
        done == [s EXCEPT !.i = Len(s.stocks_a) + 1, !.j = 1]
    IN  IF ticker_a = ticker_b THEN Advance(s)
        ELSE IF fetch.raised
        THEN [done EXCEPT !.calls = Append(s.calls, call)]
        ELSE IF fetch.rows < 500
        THEN [Advance(s) EXCEPT !.calls = Append(s.calls, call)]
        ELSE IF analysis.raised
        THEN [done EXCEPT
                 !.calls = Append(s.calls, [call EXCEPT !.analysis = "raised"])]
        ELSE [Advance(s) EXCEPT
                 !.calls = Append(s.calls,
                                  [call EXCEPT !.analysis = "returned"]),
                 !.results = Append(s.results,
                                    [pair |-> <<ticker_a, ticker_b>>,
                                     score |-> analysis.score])]

\* lines 233-257, one iteration of the two loops; `calls` records the calls
\* of fetch_pair, and what the calls of the analyzer after them did
ScreenIteration(s, fetch, analysis) ==
    LET ticker_a == s.stocks_a[s.i]
        ticker_b == s.stocks_b[s.j]
        call == [pair |-> <<ticker_a, ticker_b>>, fetch |-> fetch,
                 analysis |-> "not called"]
    IN  \* line 235: if ticker_a == ticker_b: continue
        IF ticker_a = ticker_b THEN Advance(s)
        \* line 242 raises: except Exception: continue
        ELSE IF fetch.raised
        THEN [Advance(s) EXCEPT !.calls = Append(s.calls, call)]
        \* line 244: if len(data) < 500: continue
        ELSE IF fetch.rows < 500
        THEN [Advance(s) EXCEPT !.calls = Append(s.calls, call)]
        \* line 247 or 252 raises: except Exception: continue
        ELSE IF analysis.raised
        THEN [Advance(s) EXCEPT
                 !.calls = Append(s.calls, [call EXCEPT !.analysis = "raised"])]
        \* line 254: results.append(result)
        ELSE [Advance(s) EXCEPT
                 !.calls = Append(s.calls,
                                  [call EXCEPT !.analysis = "returned"]),
                 !.results = Append(s.results,
                                    [pair |-> <<ticker_a, ticker_b>>,
                                     score |-> analysis.score])]

RECURSIVE SortedOrders(_)
\* df.sort_values('score', ascending=False): the orders of the rows with
\* the scores descending; the sort is not stable, so rows of equal score
\* come in any order
SortedOrders(rows) ==
    IF rows = {} THEN {<<>>}
    ELSE UNION {{<<r>> \o rest : rest \in SortedOrders(rows \ {r})} :
                   r \in {r \in rows : \A q \in rows : r.score >= q.score}}

InitScreen ==
    /\ NoBacktest /\ NoCall /\ NoOptimizer
    /\ \E stocks_a \in StockLists, stocks_b \in StockLists,
          analyzer \in Analyzers :
           screening = [pc |-> "loop", stocks_a |-> stocks_a,
                        stocks_b |-> stocks_b, analyzer |-> analyzer,
                        i |-> 1, j |-> 1, results |-> <<>>, calls |-> <<>>]

\* lines 233-257
ScreenPair ==
    /\ screening.pc = "loop"
    /\ screening.i <= Len(screening.stocks_a)
    /\ \E fetch \in FetchOutcomes,
          analysis \in AnalysisOutcomes(screening.analyzer) :
           screening' = ScreenIteration(screening, fetch, analysis)
    /\ UNCHANGED <<backtestVars, callVars, optimizer>>

\* lines 261-267: the empty DataFrame, or the sorted one
ScreenReturn ==
    /\ screening.pc = "loop"
    /\ screening.i > Len(screening.stocks_a)
    /\ \E sorted \in SortedOrders({screening.results[k] :
                                      k \in DOMAIN screening.results}) :
           screening' = [screening EXCEPT !.pc = "done", !.results = sorted]
    /\ UNCHANGED <<backtestVars, callVars, optimizer>>

NextScreen == ScreenPair \/ ScreenReturn

SpecScreen == InitScreen /\ [][NextScreen]_vars

(* Claims about the screening *)

\* the ordered pairs (a, b) of the cross product with a != b, in the order
\* of the loops
CrossProduct(stocks_a, stocks_b) ==
    LET all == [k \in 1..(Len(stocks_a) * Len(stocks_b)) |->
                   <<stocks_a[((k - 1) \div Len(stocks_b)) + 1],
                     stocks_b[((k - 1) % Len(stocks_b)) + 1]>>]
    IN  SelectSeq(all, LAMBDA p : p[1] # p[2])

Fetched(call) == ~call.fetch.raised /\ call.fetch.rows >= 500

ResultPairs == {screening.results[k].pair : k \in DOMAIN screening.results}

\* C13: screen_all_pairs, run with a CointegrationAnalyzer instance and a
\* fetcher that returns an aligned panel of at least 500 rows for every
\* pair, returns exactly one analysed and scored result for every ordered
\* pair (a, b) of the cross product with a != b, sorted by descending
\* score; pairs with a == b and pairs whose panel has fewer than 500 rows
\* contribute no result.
C13_OneResultPerPair ==
    (screening.pc = "done" /\ screening.analyzer = "CointegrationAnalyzer") =>
        LET pairs == CrossProduct(screening.stocks_a, screening.stocks_b)
            results == screening.results
        IN  /\ (\A k \in DOMAIN screening.calls : Fetched(screening.calls[k])) =>
                   /\ Len(results) = Len(pairs)
                   /\ ResultPairs = {pairs[k] : k \in DOMAIN pairs}
                   /\ \A k \in 1..(Len(results) - 1) :
                          results[k].score >= results[k + 1].score
            /\ \A p \in ResultPairs : p[1] # p[2]
            /\ \A k \in DOMAIN screening.calls :
                   ~Fetched(screening.calls[k]) =>
                       screening.calls[k].pair \notin ResultPairs

\* the pairs whose fetch, analysis and scoring all went through
Succeeded(call) == Fetched(call) /\ call.analysis = "returned"

\* C14: in screen_all_pairs a fetch or analysis exception for one pair only
\* skips that pair: every later pair of the cross product is still fetched
\* and analysed, the function never raises because of a failure of one
\* pair, and the pairs that succeeded before and after the failure are all
\* in the result.
C14_FailureSkipsOnePair ==
    (screening.pc # "none") =>
        LET pairs == CrossProduct(screening.stocks_a, screening.stocks_b)
            calls == screening.calls
            \* the pairs of the cross product that the loops have passed
            passed == (screening.i - 1) * Len(screening.stocks_b)
                          + (screening.j - 1)
            upto == Cardinality({k \in 1..passed :
                        screening.stocks_a[((k - 1) \div Len(screening.stocks_b)) + 1]
                            # screening.stocks_b[((k - 1) % Len(screening.stocks_b)) + 1]})
        IN  /\ screening.pc \in {"loop", "done"}
            /\ Len(calls) = upto
            /\ \A k \in DOMAIN calls : calls[k].pair = pairs[k]
            /\ screening.pc = "done" => Len(calls) = Len(pairs)
            /\ \A k \in DOMAIN calls :
                   Fetched(calls[k]) => calls[k].analysis # "not called"
            /\ Len(screening.results) = Cardinality(ResultPairs)
            /\ ResultPairs = {calls[k].pair :
                                 k \in {c \in DOMAIN calls : Succeeded(calls[c])}}

\* a screening where one pair succeeds, the fetch of the next pair raises,
\* the analysis of the pair after it raises, and the last pair succeeds:
\* the result holds the first and the last pair
C14_Witness ==
    /\ screening.pc = "done"
    /\ Len(screening.calls) = 4
    /\ screening.calls[2].fetch.raised
    /\ screening.calls[3].analysis = "raised"
    /\ Succeeded(screening.calls[1]) /\ Succeeded(screening.calls[4])
    /\ ResultPairs = {screening.calls[1].pair, screening.calls[4].pair}
----------------------------------------------------------------------------
(***************************************************************************)
(* ParameterOptimizer, the grid search over the configurations of the      *)
(* backtest.  A backtest run is kept as its configuration, its trade count *)
(* and its Sharpe ratio; what a run yields is chosen when it is made.      *)
(***************************************************************************)

\* the candidate entry thresholds and exit thresholds, in tenths, and the
\* candidate lookback windows
EntryGrids == {<<25>>, <<20, 25>>}

ExitGrids == {<<5>>, <<0, 5>>}

LookbackGrids == {<<20>>, <<10, 20>>}

\* the configured minimum trade count
MinimumTrades == {1, 6}

\* what a backtest run yields
RunOutcomes == [trades : {0, 5}, sharpe : {1, 2}]

\* the Cartesian product of the three lists, the entry thresholds outermost
Combinations(entries, exits, lookbacks) ==
    [k \in 1..(Len(entries) * Len(exits) * Len(lookbacks)) |->
        [entry_threshold |->
             entries[((k - 1) \div (Len(exits) * Len(lookbacks))) + 1],
         exit_threshold |->
             exits[(((k - 1) \div Len(lookbacks)) % Len(exits)) + 1],
         lookback_window |-> lookbacks[((k - 1) % Len(lookbacks)) + 1]]]

\* no qualifying configuration
NoConfiguration == [found |-> FALSE]

\* a run replaces the best so far whatever its trade count
Better_IgnoresMinimum(run, best, min_trades) ==
    \/ ~best.found
    \/ run.sharpe > best.run.sharpe

\* a run replaces the best so far when its trade count meets the minimum
\* and its Sharpe ratio is higher; of equal Sharpe ratios the first stays
Better(run, best, min_trades) ==
    /\ run.trades >= min_trades
    /\ \/ ~best.found
       \/ run.sharpe > best.run.sharpe

InitGrid ==
    /\ NoBacktest /\ NoCall /\ NoScreening
    /\ \E entries \in EntryGrids, exits \in ExitGrids,
          lookbacks \in LookbackGrids, min_trades \in MinimumTrades :
           optimizer = [pc |-> "search",
                        grid |-> Combinations(entries, exits, lookbacks),
                        min_trades |-> min_trades,
                        runs |-> <<>>,
                        best |-> NoConfiguration,
                        result |-> NoConfiguration]

\* the backtest of the next combination of the grid
RunCombination ==
    /\ optimizer.pc = "search"
    /\ Len(optimizer.runs) < Len(optimizer.grid)
    /\ \E outcome \in RunOutcomes :
           LET run == [config |-> optimizer.grid[Len(optimizer.runs) + 1],
                       trades |-> outcome.trades, sharpe |-> outcome.sharpe]
           IN  optimizer' =
                   [optimizer EXCEPT
                       !.runs = Append(optimizer.runs, run),
                       !.best = IF Better(run, optimizer.best,
                                          optimizer.min_trades)
                                THEN [found |-> TRUE, run |-> run]
                                ELSE optimizer.best]
    /\ UNCHANGED <<backtestVars, callVars, screening>>

\* the result of the search: the best run, or no qualifying configuration
ReturnBest ==
    /\ optimizer.pc = "search"
    /\ Len(optimizer.runs) = Len(optimizer.grid)
    /\ optimizer' = [optimizer EXCEPT !.pc = "done",
                                      !.result = optimizer.best]
    /\ UNCHANGED <<backtestVars, callVars, screening>>

NextGrid == RunCombination \/ ReturnBest

SpecGrid == InitGrid /\ [][NextGrid]_vars

(* Claims about the grid search *)

\* C16: the grid search runs the backtest for every combination of the
\* Cartesian product of entry thresholds, exit thresholds and lookback
\* windows, discards the combinations whose trade count is below the
\* configured minimum, and when no combination meets the minimum it
\* returns the explicit "no qualifying configuration" result: it does not
\* raise, and it returns no configuration of its own choice.
C16_GridSearchResult ==
    (optimizer.pc # "none") =>
        LET runs == optimizer.runs
            grid == optimizer.grid
            qualifying == {k \in DOMAIN runs :
                              runs[k].trades >= optimizer.min_trades}
        IN  /\ optimizer.pc \in {"search", "done"}
            /\ \A k \in DOMAIN runs : runs[k].config = grid[k]
            /\ optimizer.pc = "done" =>
                   /\ Len(runs) = Len(grid)
                   /\ \A e \in {grid[k].entry_threshold : k \in DOMAIN grid},
                         x \in {grid[k].exit_threshold : k \in DOMAIN grid},
                         w \in {grid[k].lookback_window : k \in DOMAIN grid} :
                          Cardinality({k \in DOMAIN runs :
                              runs[k].config = [entry_threshold |-> e,
                                                exit_threshold |-> x,
                                                lookback_window |-> w]}) = 1
                   /\ optimizer.result.found =>
                          \E k \in qualifying : optimizer.result.run = runs[k]
                   /\ qualifying = {} => optimizer.result = NoConfiguration
                   /\ qualifying # {} => optimizer.result.found

\* a search over eight combinations of which some traded, none often
\* enough: no qualifying configuration
C16_Witness ==
    /\ optimizer.pc = "done"
    /\ Len(optimizer.runs) = 8
    /\ \E k \in DOMAIN optimizer.runs : optimizer.runs[k].trades > 0
    /\ \A k \in DOMAIN optimizer.runs :
           optimizer.runs[k].trades < optimizer.min_trades
    /\ optimizer.result = NoConfiguration
====
